---- MODULE Spec2Model ----
(***************************************************************************)
(* Model of the photo cache of photo-mcp-server: the per-archive,          *)
(* disk-backed index build (core/image_cache.rs), the paginated queries    *)
(* over the built cache and the typed EXIF tag query engine (core/exif.rs).*)
(*                                                                         *)
(* Text is modelled as a sequence of one-character strings so that the     *)
(* conversions of the code (key formatting and splitting, number parsing,  *)
(* lower-casing) are computed, not assumed.                                *)
(***************************************************************************)
EXTENDS Integers, Sequences, FiniteSets, TLC

\* ------------------------------------------------------------------------
\* Bounds of the model
\* ------------------------------------------------------------------------

\* most entries in the first zip archive
MaxEntries == 2

\* most entries in every further zip archive
MaxEntriesMore == 1

\* width of the machine word (usize) in bits, scaled down from 64
WordBits == 3

\* width of a u32 in bits, scaled down from 32
U32Bits == 12

\* threads that fetch image bytes at the same time
MaxThreads == 2

\* ------------------------------------------------------------------------
\* Text helpers
\* ------------------------------------------------------------------------

DigitChars == <<"0", "1", "2", "3", "4", "5", "6", "7", "8", "9">>

IsDigit(c) == \E d \in 1..10 : DigitChars[d] = c

DigitVal(c) == (CHOOSE d \in 1..10 : DigitChars[d] = c) - 1

UpperChars == <<"A", "B", "C", "D", "E", "F", "G", "H", "I", "J", "K", "L", "M",
                "N", "O", "P", "Q", "R", "S", "T", "U", "V", "W", "X", "Y", "Z">>

LowerChars == <<"a", "b", "c", "d", "e", "f", "g", "h", "i", "j", "k", "l", "m",
                "n", "o", "p", "q", "r", "s", "t", "u", "v", "w", "x", "y", "z">>

LowerChar(c) ==
    IF \E k \in 1..26 : UpperChars[k] = c
    THEN LowerChars[CHOOSE k \in 1..26 : UpperChars[k] = c]
    ELSE c

\* str::to_lowercase
to_lowercase(s) == [k \in 1..Len(s) |-> LowerChar(s[k])]

\* str::starts_with
starts_with(s, p) == Len(p) <= Len(s) /\ SubSeq(s, 1, Len(p)) = p

\* str::ends_with
ends_with(s, p) == Len(p) <= Len(s) /\ SubSeq(s, Len(s) - Len(p) + 1, Len(s)) = p

\* str::contains
contains(s, p) ==
    \E k \in 1..(Len(s) + 1) : k + Len(p) - 1 <= Len(s) /\ SubSeq(s, k, k + Len(p) - 1) = p

RECURSIVE Digits(_)
\* decimal text of an unsigned integer, as the {} formatter writes it
Digits(n) == IF n < 10 THEN <<DigitChars[n + 1]>>
             ELSE Digits(n \div 10) \o <<DigitChars[(n % 10) + 1]>>

RECURSIVE DigitsValue(_, _)
\* value of a digit string, saturating at cap + 1 (an overflow of the target type)
DigitsValue(s, cap) ==
    IF s = <<>> THEN 0
    ELSE LET v == 10 * DigitsValue(SubSeq(s, 1, Len(s) - 1), cap) + DigitVal(s[Len(s)])
         IN  IF v > cap THEN cap + 1 ELSE v

\* largest value of a usize
UsizeMax == 2 ^ WordBits - 1

\* largest value of a u32 (scaled with U32Bits)
U32Max == 2 ^ U32Bits - 1

\* unsigned from_str: an optional '+', then one or more ASCII digits, no overflow
parse_unsigned(s, cap) ==
    LET body == IF s # <<>> /\ s[1] = "+" THEN Tail(s) ELSE s
        wellformed == body # <<>> /\ \A k \in 1..Len(body) : IsDigit(body[k])
    IN  IF wellformed /\ DigitsValue(body, cap) <= cap
        THEN [ok |-> TRUE, val |-> DigitsValue(body, cap)]
        ELSE [ok |-> FALSE, val |-> 0]

\* str::parse::<usize>
parse_usize(s) == parse_unsigned(s, UsizeMax)

\* str::parse::<u32>
parse_u32(s) == parse_unsigned(s, U32Max)

RECURSIVE split(_, _)
\* str::split(sep): the parts between the occurrences of the character sep
split(s, sep) ==
    IF \E k \in 1..Len(s) : s[k] = sep
    THEN LET k == CHOOSE j \in 1..Len(s) : s[j] = sep /\ \A h \in 1..(j - 1) : s[h] # sep
         IN  <<SubSeq(s, 1, k - 1)>> \o split(SubSeq(s, k + 1, Len(s)), sep)
    ELSE <<s>>

\* all enumerations of a finite set as a sequence (an unspecified iteration order)
Orders(S) ==
    {f \in [1..Cardinality(S) -> S] : \A a, b \in 1..Cardinality(S) : f[a] = f[b] => a = b}

Range(s) == {s[k] : k \in 1..Len(s)}

\* ------------------------------------------------------------------------
\* PhotoInfo and its composite cache key
\* ------------------------------------------------------------------------

PhotoInfo(zip_file, image, index) ==
    [zip_file_name |-> zip_file, photo_file_name |-> image, photo_index_in_zip |-> index]

\* a key without the delimiter
serialize_as_key_plain(p) ==
    p.zip_file_name \o p.photo_file_name \o Digits(p.photo_index_in_zip)

\* PhotoInfo::serialize_as_key: format!("{}|{}|{}", ...)
serialize_as_key(p) ==
    p.zip_file_name \o <<"|">> \o p.photo_file_name \o <<"|">> \o Digits(p.photo_index_in_zip)

deserialize_from_key(key) ==
    LET parts == split(key, "|")
    IN  IF Len(parts) = 3 /\ parse_usize(parts[3]).ok
        THEN [ok |-> TRUE, info |-> PhotoInfo(parts[1], parts[2], parse_usize(parts[3]).val)]
        ELSE [ok |-> FALSE, info |-> PhotoInfo(<<>>, <<>>, 0)]

\* zip::is_image_file
is_image_file(file_name) ==
    LET lower == to_lowercase(file_name)
    IN  \/ ends_with(lower, <<".", "j", "p", "g">>)
        \/ ends_with(lower, <<".", "j", "p", "e", "g">>)
        \/ ends_with(lower, <<".", "p", "n", "g">>)

\* ------------------------------------------------------------------------
\* Typed EXIF tag query engine (core/exif.rs)
\* ------------------------------------------------------------------------

\* the double-quote character
QuoteChar == "\""

\* a finite f32 is the rational num / den (den > 0); kind is "fin", "inf" or "nan"
F32(kind, num, den) == [kind |-> kind, num |-> num, den |-> den]

RECURSIVE Pow10(_)
Pow10(n) == IF n = 0 THEN 1 ELSE 10 * Pow10(n - 1)

AllDigits(s) == \A k \in 1..Len(s) : IsDigit(s[k])

\* the digits of s before the first character c, and the rest after it
Before(s, c) ==
    IF \E k \in 1..Len(s) : s[k] = c
    THEN SubSeq(s, 1, (CHOOSE j \in 1..Len(s) : s[j] = c /\ \A h \in 1..(j - 1) : s[h] # c) - 1)
    ELSE s

After(s, c) ==
    IF \E k \in 1..Len(s) : s[k] = c
    THEN SubSeq(s, (CHOOSE j \in 1..Len(s) : s[j] = c /\ \A h \in 1..(j - 1) : s[h] # c) + 1, Len(s))
    ELSE <<>>

HasChar(s, c) == \E k \in 1..Len(s) : s[k] = c

\* largest mantissa the model represents exactly
MantissaCap == 99999

\* str::parse::<f32>: [sign] (inf | infinity | nan | digits [. digits] [e [sign] digits])
parse_f32(s) ==
    LET neg == s # <<>> /\ s[1] = "-"
        body == IF s # <<>> /\ (s[1] = "+" \/ s[1] = "-") THEN Tail(s) ELSE s
        low == to_lowercase(body)
        mant == Before(low, "e")
        hasExp == HasChar(low, "e")
        expTxt == After(low, "e")
        expNeg == expTxt # <<>> /\ expTxt[1] = "-"
        expDig == IF expTxt # <<>> /\ (expTxt[1] = "+" \/ expTxt[1] = "-")
                  THEN Tail(expTxt) ELSE expTxt
        intPart == Before(mant, ".")
        fracPart == After(mant, ".")
        mantOk == /\ AllDigits(intPart) /\ AllDigits(fracPart)
                  /\ Len(intPart) + Len(fracPart) >= 1
        expOk == ~hasExp \/ (expDig # <<>> /\ AllDigits(expDig))
        e == IF hasExp /\ expOk THEN DigitsValue(expDig, 4) ELSE 0
        m == DigitsValue(intPart \o fracPart, MantissaCap)
        scale == Len(fracPart) + (IF expNeg THEN e ELSE 0)
        up == IF expNeg THEN 0 ELSE e
        sign == IF neg THEN -1 ELSE 1
    IN  IF low = <<"i", "n", "f">> \/ low = <<"i", "n", "f", "i", "n", "i", "t", "y">>
        THEN [ok |-> TRUE, val |-> F32("inf", sign, 1)]
        ELSE IF low = <<"n", "a", "n">>
        THEN [ok |-> TRUE, val |-> F32("nan", 0, 1)]
        ELSE IF mantOk /\ expOk
        THEN [ok |-> TRUE, val |-> F32("fin", sign * m * Pow10(up), Pow10(scale))]
        ELSE [ok |-> FALSE, val |-> F32("nan", 0, 1)]

\* denominator of f32::EPSILON = 2^-23
EpsilonDen == 8388608

\* f > g on f32 values (false when either is NaN)
F32Gt(f, g) ==
    IF f.kind = "nan" \/ g.kind = "nan" THEN FALSE
    ELSE IF f.kind = "inf" THEN f.num > 0 /\ ~(g.kind = "inf" /\ g.num > 0)
    ELSE IF g.kind = "inf" THEN g.num < 0
    ELSE f.num * g.den > g.num * f.den

\* f == g on f32 values (false when either is NaN)
F32EqExact(f, g) ==
    IF f.kind = "nan" \/ g.kind = "nan" THEN FALSE
    ELSE IF f.kind = "inf" \/ g.kind = "inf" THEN f.kind = g.kind /\ f.num = g.num
    ELSE f.num * g.den = g.num * f.den

\* (f - g).abs() < f32::EPSILON; inf - inf is NaN, any comparison with NaN is false
F32AbsDiffLtEps(f, g) ==
    IF f.kind # "fin" \/ g.kind # "fin" THEN FALSE
    ELSE LET dn == f.num * g.den - g.num * f.den
             ad == IF dn < 0 THEN -dn ELSE dn
             dd == f.den * g.den
         IN  ad = 0 \/ (ad <= dd \div EpsilonDen /\ ad * EpsilonDen < dd)

\* (f - g).abs() >= f32::EPSILON
F32AbsDiffGeEps(f, g) ==
    IF f.kind = "nan" \/ g.kind = "nan" THEN FALSE
    ELSE IF f.kind = "inf" \/ g.kind = "inf"
    THEN ~(f.kind = "inf" /\ g.kind = "inf" /\ f.num = g.num)
    ELSE ~F32AbsDiffLtEps(f, g)

\* Result<bool, PhotoInsightError>
OkBool(b) == [ok |-> TRUE, val |-> b]

ErrBool == [ok |-> FALSE, val |-> FALSE]

\* enum ExifTagValue
TagString(s) == [type |-> "String", s |-> s, n |-> 0, f |-> F32("fin", 0, 1)]

TagNumber(n) == [type |-> "Number", s |-> <<>>, n |-> n, f |-> F32("fin", 0, 1)]

TagFloat(f) == [type |-> "Float", s |-> <<>>, n |-> 0, f |-> f]

Ok(v) == [ok |-> TRUE, val |-> v]

Err(v) == [ok |-> FALSE, val |-> v]

\* ExifInfo::extract_tag_value
extract_tag_value(self, tag_name) ==
    IF tag_name \in {"model", "lens"}
    THEN Ok(TagString(IF tag_name = "model" THEN self.model ELSE self.lens))
    ELSE IF tag_name \in {"aperture", "shutter_speed", "iso", "focal_len"}
    THEN LET val == CASE tag_name = "aperture" -> self.aperture
                      [] tag_name = "shutter_speed" -> self.shutter_speed
                      [] tag_name = "iso" -> self.iso
                      [] OTHER -> self.focal_len
         IN  IF parse_f32(val).ok THEN Ok(TagFloat(parse_f32(val).val))
             ELSE Err(TagFloat(F32("nan", 0, 1)))
    ELSE IF tag_name \in {"width", "height", "year", "month"}
    THEN Ok(TagNumber(CASE tag_name = "width" -> self.width
                        [] tag_name = "height" -> self.height
                        [] tag_name = "year" -> self.year
                        [] OTHER -> self.month))
    ELSE Err(TagNumber(0))

\* a String arm that answers "no match" for an operator it does not know
match_string_silent_false(s, tag_value, operator) ==
    CASE operator = "==" -> OkBool(to_lowercase(s) = to_lowercase(tag_value))
      [] operator = "!=" -> OkBool(to_lowercase(s) # to_lowercase(tag_value))
      [] operator = "contains" -> OkBool(contains(to_lowercase(s), to_lowercase(tag_value)))
      [] operator = "starts_with" -> OkBool(starts_with(to_lowercase(s), to_lowercase(tag_value)))
      [] operator = "ends_with" -> OkBool(ends_with(to_lowercase(s), to_lowercase(tag_value)))
      [] OTHER -> OkBool(FALSE)

\* the String arm of ExifInfo::match_exif_tag_value
match_string(s, tag_value, operator) ==
    CASE operator = "==" -> OkBool(to_lowercase(s) = to_lowercase(tag_value))
      [] operator = "!=" -> OkBool(to_lowercase(s) # to_lowercase(tag_value))
      [] operator = "contains" -> OkBool(contains(to_lowercase(s), to_lowercase(tag_value)))
      [] operator = "starts_with" -> OkBool(starts_with(to_lowercase(s), to_lowercase(tag_value)))
      [] operator = "ends_with" -> OkBool(ends_with(to_lowercase(s), to_lowercase(tag_value)))
      [] OTHER -> ErrBool

\* the Number arm of ExifInfo::match_exif_tag_value
match_number(n, tag_value, operator) ==
    LET parsed == parse_u32(tag_value)
    IN  IF ~parsed.ok THEN ErrBool
        ELSE CASE operator = "==" -> OkBool(n = parsed.val)
               [] operator = "!=" -> OkBool(n # parsed.val)
               [] operator = ">" -> OkBool(n > parsed.val)
               [] operator = "<" -> OkBool(n < parsed.val)
               [] operator = ">=" -> OkBool(n >= parsed.val)
               [] operator = "<=" -> OkBool(n <= parsed.val)
               [] OTHER -> ErrBool

\* the Float arm of ExifInfo::match_exif_tag_value
match_float(f, tag_value, operator) ==
    LET parsed == parse_f32(tag_value)
    IN  IF ~parsed.ok THEN ErrBool
        ELSE CASE operator = "==" -> OkBool(F32AbsDiffLtEps(f, parsed.val))
               [] operator = "!=" -> OkBool(F32AbsDiffGeEps(f, parsed.val))
               [] operator = ">" -> OkBool(F32Gt(f, parsed.val))
               [] operator = "<" -> OkBool(F32Gt(parsed.val, f))
               [] operator = ">=" -> OkBool(F32Gt(f, parsed.val) \/ F32EqExact(f, parsed.val))
               [] operator = "<=" -> OkBool(F32Gt(parsed.val, f) \/ F32EqExact(f, parsed.val))
               [] OTHER -> ErrBool

\* ExifInfo::match_exif_tag_value
match_exif_tag_value(value, tag_value, operator) ==
    CASE value.type = "String" -> match_string(value.s, tag_value, operator)
      [] value.type = "Number" -> match_number(value.n, tag_value, operator)
      [] OTHER -> match_float(value.f, tag_value, operator)

\* ExifInfo::matches_query
matches_query(self, tag_name, tag_value, operator) ==
    LET exif_tag_value == extract_tag_value(self, tag_name)
    IN  IF ~exif_tag_value.ok THEN ErrBool
        ELSE match_exif_tag_value(exif_tag_value.val, tag_value, operator)

\* ------------------------------------------------------------------------
\* The directory: zip archives, their entries, and what extraction yields
\* ------------------------------------------------------------------------

\* struct ExifInfo
ExifInfo(year, month, model, width, height, date_time, aperture, shutter_speed, iso, focal_len, lens) ==
    [year |-> year, month |-> month, model |-> model, width |-> width, height |-> height,
     date_time |-> date_time, aperture |-> aperture, shutter_speed |-> shutter_speed,
     iso |-> iso, focal_len |-> focal_len, lens |-> lens]

TxtUnknown == <<QuoteChar, "u", "n", "k", "n", "o", "w", "n", QuoteChar>>

\* the record extract_exif_info gives for a photo taken 2021-05 with an X100
InfoX100 ==
    ExifInfo(2021, 5, <<QuoteChar, "X", "1", "0", "0", QuoteChar>>, 640, 480,
             <<QuoteChar, "2", "0", "2", "1", "-", "0", "5", QuoteChar>>,
             <<"2", ".", "8">>, <<"2", "5", "0">>, <<"1", "0", "0">>, <<"3", "5">>,
             TxtUnknown)

\* the record for a photo taken 2020-12 with a D5
InfoD5 ==
    ExifInfo(2020, 12, <<QuoteChar, "D", "5", QuoteChar>>, 480, 640,
             <<QuoteChar, "2", "0", "2", "0", "-", "1", "2", QuoteChar>>,
             <<"4">>, <<"6", "0">>, <<"2", "0", "0">>, <<"5", "0">>,
             <<QuoteChar, "5", "0", "m", "m", QuoteChar>>)

\* the record for a photo whose EXIF block holds no usable tag
InfoBare ==
    ExifInfo(0, 0, TxtUnknown, 0, 0, TxtUnknown, <<"0">>, <<"u", "n", "k", "n", "o", "w", "n">>,
             <<"0">>, <<"0">>, TxtUnknown)

\* an archive entry: its name and the outcome of extract_exif_info on its bytes
ZipEntry(name, ok, info) == [name |-> name, exif |-> [ok |-> ok, info |-> info]]

EntryPool ==
    { ZipEntry(<<"i", "m", "g", "1", ".", "j", "p", "g">>, TRUE, InfoX100),
      ZipEntry(<<"I", "M", "G", "2", ".", "P", "N", "G">>, FALSE, InfoBare),
      ZipEntry(<<"p", "|", "q", ".", "j", "p", "e", "g">>, TRUE, InfoD5),
      ZipEntry(<<"b", ".", "j", "p", "g">>, TRUE, InfoBare),
      ZipEntry(<<"t", ".", "t", "x", "t">>, TRUE, InfoX100) }

ArchiveNames == << <<"a", ".", "z", "i", "p">>, <<"b", ".", "z", "i", "p">> >>

\* a file of the directory that is not an archive
OtherFile == [name |-> <<"n", ".", "t", "x", "t">>, entries |-> <<>>]

EntrySeqs(max) == UNION {[1..n -> EntryPool] : n \in 0..max}

\* the directories the model explores: up to Len(ArchiveNames) archives
Dirs ==
    {d \in UNION {[1..n -> [name : Range(ArchiveNames),
                            entries : EntrySeqs(MaxEntries) \cup EntrySeqs(MaxEntriesMore)]] :
                     n \in 0..Len(ArchiveNames)} :
        /\ \A k \in 1..Len(d) : d[k].name = ArchiveNames[k]
        /\ \A k \in 1..Len(d) : Len(d[k].entries) <= (IF k = 1 THEN MaxEntries
                                                       ELSE MaxEntriesMore)}

\* Path::extension: the text after the last '.', none for a leading or missing '.'
extension(name) ==
    IF \E k \in 2..Len(name) : name[k] = "."
    THEN SubSeq(name, (CHOOSE j \in 2..Len(name) :
                          name[j] = "." /\ \A h \in (j + 1)..Len(name) : name[h] # ".") + 1,
                Len(name))
    ELSE <<>>

\* traversal::list_directory_zip_files
list_directory_zip_files(files) ==
    LET names == [k \in 1..Len(files) |-> files[k].name]
        is_zip(n) == extension(n) = <<"z", "i", "p">>
    IN  SelectSeq(names, is_zip)

EntriesOf(files, zip) == files[CHOOSE k \in 1..Len(files) : files[k].name = zip].entries

\* zip::list_zip_archive: the (index, name) pairs of the image-like entries
list_zip_archive(files, zip) ==
    LET entries == EntriesOf(files, zip)
    IN  {<<k - 1, entries[k].name>> : k \in {j \in 1..Len(entries) : is_image_file(entries[j].name)}}

\* exif::extract_all_exifs_from_zip_archive: PhotoInfo -> ExifInfo of the entries that decode
extract_all_exifs_from_zip_archive(files, zip) ==
    LET entries == EntriesOf(files, zip)
        good == {k \in 1..Len(entries) : is_image_file(entries[k].name) /\ entries[k].exif.ok}
    IN  [p \in {PhotoInfo(zip, entries[k].name, k - 1) : k \in good} |->
            entries[p.photo_index_in_zip + 1].exif.info]

\* ------------------------------------------------------------------------
\* EXIF extraction: from the tags of a container to an ExifInfo (core/exif.rs)
\* ------------------------------------------------------------------------

\* str::replace(c, ""): the text without the character c
remove_char(s, c) ==
    LET keep(x) == x # c
    IN  SelectSeq(s, keep)

RECURSIVE trim_start(_)
trim_start(s) == IF s # <<>> /\ Head(s) = " " THEN trim_start(Tail(s)) ELSE s

RECURSIVE trim_end(_)
trim_end(s) ==
    IF s # <<>> /\ s[Len(s)] = " " THEN trim_end(SubSeq(s, 1, Len(s) - 1)) ELSE s

\* str::trim
trim(s) == trim_end(trim_start(s))

\* an EXIF container: whether exif::Reader can read it, and the display_value text
\* of each tag of its primary image (a tag that is absent is not in the domain)
Container(readable, tags) == [readable |-> readable, tags |-> tags]

\* extract_tag: the first candidate tag that is present wins
extract_tag(exif, tags, numeric) ==
    LET is_some(t) == t \in DOMAIN exif.tags
        found == SelectSeq(tags, is_some)
    IN  IF found = <<>>
        THEN (IF numeric THEN <<"0">> ELSE TxtUnknown)
        ELSE IF numeric
        THEN (IF parse_f32(exif.tags[found[1]]).ok THEN exif.tags[found[1]] ELSE <<"0">>)
        ELSE <<QuoteChar>>
             \o trim(remove_char(remove_char(exif.tags[found[1]], QuoteChar), ","))
             \o <<QuoteChar>>

\* the pattern digit digit digit digit - digit digit at position k of s
date_at(s, k) ==
    /\ Len(s) >= k + 6
    /\ \A h \in {k, k + 1, k + 2, k + 3, k + 5, k + 6} : IsDigit(s[h])
    /\ s[k + 4] = "-"

\* RE.captures for ^.?(\d\d\d\d)-(\d\d): where the year starts, 0 for no match
re_captures(s) ==
    IF date_at(s, 2) THEN 2 ELSE IF date_at(s, 1) THEN 1 ELSE 0

\* the shutter speed text, lines 241-257
shutter_text(exif) ==
    LET first == extract_tag(exif, <<"ShutterSpeedValue", "ExposureTime">>, FALSE)
        shutter == IF ~contains(first, <<"/">>)
                   THEN extract_tag(exif, <<"ExposureTime">>, FALSE)
                   ELSE first
        s == split(shutter, "/")
    IN  remove_char(IF contains(shutter, <<"/">>) /\ Len(s) = 2 THEN s[2] ELSE shutter,
                    QuoteChar)

\* Result<(ExifInfo, Vec<u8>), PhotoInsightError>, without the thumbnail
ExifOk(info) == [ok |-> TRUE, err |-> "", info |-> info]

ExifErr(err) ==
    [ok |-> FALSE, err |-> err,
     info |-> ExifInfo(0, 0, <<>>, 0, 0, <<>>, <<>>, <<>>, <<>>, <<>>, <<>>)]

\* the (year, month) of a date text, lines 223-234
year_month(date_time) ==
    LET k == re_captures(date_time)
    IN  IF k = 0 THEN [ok |-> TRUE, year |-> 0, month |-> 0]
        ELSE [ok |-> parse_u32(SubSeq(date_time, k, k + 3)).ok,
              year |-> parse_u32(SubSeq(date_time, k, k + 3)).val,
              month |-> parse_u32(SubSeq(date_time, k + 5, k + 6)).val]

\* extract_exif_info, the ExifInfo part
extract_exif_info(exif) ==
    LET width == parse_u32(extract_tag(exif, <<"ImageWidth", "PixelXDimension">>, TRUE))
        height == parse_u32(extract_tag(exif, <<"ImageLength", "PixelYDimension">>, TRUE))
        date_time == extract_tag(exif, <<"DateTimeOriginal", "DateTime", "DateTimeDigitized">>,
                                 FALSE)
        ym == year_month(date_time)
    IN  IF ~exif.readable THEN ExifErr("container")
        ELSE IF ~width.ok THEN ExifErr("invalid width")
        ELSE IF ~height.ok THEN ExifErr("invalid height")
        ELSE IF ~ym.ok THEN ExifErr("invalid year")
        ELSE ExifOk(ExifInfo(ym.year, ym.month,
                             extract_tag(exif, <<"Model">>, FALSE),
                             width.val, height.val, date_time,
                             extract_tag(exif, <<"FNumber", "ApertureValue">>, TRUE),
                             shutter_text(exif),
                             extract_tag(exif, <<"ISOSpeed", "PhotographicSensitivity">>, TRUE),
                             extract_tag(exif, <<"FocalLengthIn35mmFilm", "FocalLength">>, TRUE),
                             extract_tag(exif, <<"LensModel", "LensSpecification", "LensMake">>,
                                         FALSE)))

\* ------------------------------------------------------------------------
\* Maps, cache files and their JSON form
\* ------------------------------------------------------------------------

EmptyMap == <<>>

\* HashMap::extend
extend(a, b) == [k \in (DOMAIN a) \cup (DOMAIN b) |-> IF k \in DOMAIN b THEN b[k] ELSE a[k]]

NoFile == [exists |-> FALSE, content |-> EmptyMap]

FileOf(content) == [exists |-> TRUE, content |-> content]

\* serde_json::to_writer_pretty of an ExifCacheSerialized: a JSON object, key text -> record
exif_to_json(m) == m

\* serde_json::from_reader of an ExifCacheSerialized
exif_from_json(content) == content

\* serde_json::to_writer_pretty of a ByYearMonth: the u32 keys become JSON strings
ym_to_json(m) ==
    [ytxt \in {Digits(y) : y \in DOMAIN m} |->
        LET y == CHOOSE v \in DOMAIN m : Digits(v) = ytxt
        IN  [mtxt \in {Digits(mth) : mth \in DOMAIN m[y]} |->
                m[y][CHOOSE v \in DOMAIN m[y] : Digits(v) = mtxt]]]

\* serde_json::from_reader of a ByYearMonth: the JSON string keys are parsed as u32
ym_from_json(content) ==
    [y \in {parse_u32(ytxt).val : ytxt \in DOMAIN content} |->
        LET months == content[CHOOSE ytxt \in DOMAIN content : parse_u32(ytxt).val = y]
        IN  [mth \in {parse_u32(mtxt).val : mtxt \in DOMAIN months} |->
                months[CHOOSE mtxt \in DOMAIN months : parse_u32(mtxt).val = mth]]]

\* ------------------------------------------------------------------------
\* PhotoCache::build, one archive at a time (core/image_cache.rs)
\* ------------------------------------------------------------------------

VARIABLES
    dir,              \* the files of the image directory (archives never change)
    exif_file,        \* archive name -> its .exif.json file
    ym_file,          \* archive name -> its .by_year_month.json file
    pc,               \* "idle", "running" (inside PhotoCache::build) or "failed" (it gave Err)
    zip_files,        \* build: the archive list
    next_zip,         \* build: position in zip_files
    zip_infos,        \* build: the running photo set
    exif_cache,       \* build: the merged ExifCache
    by_year_month,    \* build: the merged ByYearMonth
    ic,               \* the cache returned by the latest build
    last,             \* what the latest loop iteration of build did
    fresh,            \* the current/latest build started with no cache file
    rerun,            \* the current/latest build ran after a build, with all its files kept
    wrote,            \* the current/latest build created or rewrote a cache file
    overflow_checks,  \* the build profile: arithmetic overflow panics (debug) or wraps
    exif_iter,        \* the iteration order of ic.exif_cache, fixed when first observed
    query,            \* the arguments of an ExifInfo::matches_query call
    ret,              \* the latest query and its result
    path_kind,        \* what the image_dir path is: "dir", "file" or "missing"
    corrupt,          \* the cache files whose text is not valid JSON: <<archive, suffix>>
    container,        \* the EXIF container handed to extract_exif_info
    extracted,        \* what extract_exif_info returned for container
    fetch,            \* thread -> its image_data call
    tmp_file,         \* the content of /tmp/x.jpg
    od_file,          \* archive name -> its .object_detection.json file
    sweep,            \* the crawl_and_analyse call: its position and locals
    process,          \* the server process: the position of main and the state of the lazy static IC
    client,           \* a client that follows next_offset of a paginated tool
    own,              \* a PhotoCache instance other than the global IC
    key_io            \* a PhotoInfo, its cache key and what deserialize_from_key made of the key

vars == <<dir, exif_file, ym_file, pc, zip_files, next_zip, zip_infos, exif_cache,
          by_year_month, ic, last, fresh, rerun, wrote, overflow_checks, exif_iter,
          query, ret, path_kind, corrupt, container, extracted, fetch, tmp_file,
          od_file, sweep, process, client, own, key_io>>

\* the variables of extraction and of image fetching
other_vars == <<container, extracted, fetch, tmp_file>>

\* the variables of the detection sweep, of start-up and of the clients
late_vars == <<od_file, sweep, process, client, own, key_io>>

\* a build that never takes the .exif.json file as a cache hit
exif_file_missing_always(file) == TRUE

\* the exists() test on the .exif.json file
exif_file_missing(file) == ~file.exists

\* a build that never takes the .by_year_month.json file as a cache hit
ym_file_missing_always(file) == TRUE

\* the exists() test on the .by_year_month.json file
ym_file_missing(file) == ~file.exists

\* a fold that runs over the merged ExifCache of all the archives read so far
fold_source_merged(extract_exif, merged_exif_cache) == merged_exif_cache

\* the map the temporal fold runs over: the archive's own ExifCache
fold_source(extract_exif, merged_exif_cache) == extract_exif

\* the fold of an ExifCache into a ByYearMonth, visiting its keys in the order ord
fold_by_year_month(m, ord) ==
    LET years == {m[p].year : p \in DOMAIN m}
        months(y) == {m[p].month : p \in {q \in DOMAIN m : m[q].year = y}}
        in_bucket(y, mth) == LET test(p) == m[p].year = y /\ m[p].month = mth
                             IN  SelectSeq(ord, test)
    IN  [y \in years |-> [mth \in months(y) |-> in_bucket(y, mth)]]

\* the key -> PhotoInfo conversion of the loaded .exif.json (filter_map)
load_exif_cache(serialized) ==
    LET good == {key \in DOMAIN serialized : deserialize_from_key(key).ok}
    IN  [p \in {deserialize_from_key(key).info : key \in good} |->
            serialized[CHOOSE key \in good : deserialize_from_key(key).info = p]]

\* the PhotoInfo -> key conversion before the .exif.json is written
to_serialized(raw) ==
    [key \in {serialize_as_key(p) : p \in DOMAIN raw} |->
        raw[CHOOSE p \in DOMAIN raw : serialize_as_key(p) = key]]

\* a merge where the latest archive's list replaces the bucket
merge_lists_replace(old, infos) == infos

\* entry(month).or_insert_with(Vec::new).extend(infos)
merge_lists(old, infos) == old \o infos

\* merge partial_by_year_month into by_year_month
merge_by_year_month(global, partial) ==
    LET old(y, mth) == IF y \in DOMAIN global /\ mth \in DOMAIN global[y]
                       THEN global[y][mth] ELSE <<>>
        months(y) == (IF y \in DOMAIN global THEN DOMAIN global[y] ELSE {})
                     \cup (IF y \in DOMAIN partial THEN DOMAIN partial[y] ELSE {})
    IN  [y \in (DOMAIN global) \cup (DOMAIN partial) |->
            [mth \in months(y) |->
                IF y \in DOMAIN partial /\ mth \in DOMAIN partial[y]
                THEN merge_lists(old(y, mth), partial[y][mth])
                ELSE old(y, mth)]]

NoCache == [built |-> FALSE, images |-> <<>>, exif_cache |-> EmptyMap,
            by_year_month |-> EmptyMap]

NoLast == [zip |-> <<>>, exif_existed |-> FALSE, ym_existed |-> FALSE,
           extracted |-> FALSE, wrote_exif |-> FALSE, folded |-> FALSE, wrote_ym |-> FALSE]

NoRet == [fn |-> "none", offset |-> 0, limit |-> 0, start |-> 0, end |-> 0,
          status |-> "none", page |-> <<>>, total |-> 0, full |-> <<>>,
          tag |-> "", value |-> <<>>, operator |-> "", matched |-> FALSE,
          name |-> <<>>, zip |-> [some |-> FALSE, val |-> <<>>], year |-> 0, month |-> 0]

NoQuery == [self |-> InfoBare, tag_name |-> "", tag_value |-> <<>>, operator |-> ""]

\* the iteration order of the ExifCache has not been observed yet
NoOrder == [known |-> FALSE, order |-> <<>>]

\* no container has been handed to extract_exif_info
NoContainer == Container(FALSE, EmptyMap)

NoExtracted == [called |-> FALSE, result |-> ExifErr("")]

\* the threads that serve image_data calls
Threads == 1..MaxThreads

\* the bytes of a thumbnail: how it was made and of which photo
Bytes(kind, of) == [kind |-> kind, of |-> of]

NoBytes == Bytes("none", PhotoInfo(<<>>, <<>>, 0))

\* a thread that is not inside image_data
NoCall == [pc |-> "idle", request |-> <<>>, arxives |-> <<>>, unpacked |-> <<>>,
           images |-> <<>>, status |-> "none", err_index |-> 0, err_zip |-> <<>>]

ZipNames == Range(list_directory_zip_files(dir))

InitFiles ==
    /\ exif_file = [z \in ZipNames |-> NoFile]
    /\ ym_file = [z \in ZipNames |-> NoFile]
    /\ pc = "idle"
    /\ zip_files = <<>>
    /\ next_zip = 1
    /\ zip_infos = {}
    /\ exif_cache = EmptyMap
    /\ by_year_month = EmptyMap
    /\ ic = NoCache
    /\ last = NoLast
    /\ fresh = FALSE
    /\ rerun = FALSE
    /\ wrote = FALSE
    /\ exif_iter = NoOrder
    /\ corrupt = {}

\* no crawl_and_analyse call has been made
NoSweep == [pc |-> "idle", by_zip_archive |-> EmptyMap, order |-> <<>>, k |-> 1, chunk |-> 1,
            per_archive |-> EmptyMap, start_files |-> EmptyMap, extractions |-> EmptyMap,
            detections |-> EmptyMap, writes |-> EmptyMap, succeeded |-> {}, failed |-> {},
            runs |-> 0]
\* (extractions, detections and writes count the calls of the current sweep per archive;
\* succeeded and failed hold <<archive, chunk>> of the latest pass over each archive;
\* runs counts the sweeps completed since a result file was last deleted, up to 2)

\* the process has entered main; the lazy static IC has not been dereferenced
NoProcess == [pc |-> "main", lazy |-> "uninit", first_use |-> "none", served |-> 0]

\* no client is paging
NoClient == [pc |-> "idle", tool |-> "none", name |-> <<>>, zip |-> [some |-> FALSE, val |-> <<>>],
             limit |-> 0, offset |-> 0, calls |-> 0, seen |-> <<>>, full |-> <<>>, total |-> 0,
             next_offset |-> [some |-> FALSE, val |-> 0]]

\* no key has been formed or parsed
NoKey == [stage |-> "idle", from_photo |-> FALSE, p |-> PhotoInfo(<<>>, <<>>, 0),
          key |-> <<>>, out |-> [ok |-> FALSE, info |-> PhotoInfo(<<>>, <<>>, 0)]]

\* no sweep, no start-up and no client has acted
InitLate ==
    /\ od_file = [z \in ZipNames |-> NoFile]
    /\ sweep = NoSweep
    /\ process = NoProcess
    /\ client = NoClient
    /\ own = NoCache
    /\ key_io = NoKey

\* nothing is being extracted or fetched
InitOther ==
    /\ InitLate
    /\ container = NoContainer
    /\ extracted = NoExtracted
    /\ fetch = [t \in Threads |-> NoCall]
    /\ tmp_file = NoBytes

\* a directory of archives with no cache file yet, before the first build
Init ==
    /\ dir \in {d \o <<OtherFile>> : d \in Dirs}
    /\ path_kind = "dir"
    /\ overflow_checks = FALSE
    /\ InitFiles
    /\ InitOther
    /\ query = NoQuery
    /\ ret = NoRet

\* a build that takes every path for a directory
is_dir_always(kind) == TRUE

\* Path::is_dir on the image_dir path
is_dir(kind) == kind = "dir"

\* a build that reads every cache file as valid JSON
json_unparsable_never(bad, zip, suffix) == FALSE

\* serde_json::from_reader fails on the cache file of zip with this suffix
json_unparsable(bad, zip, suffix) == <<zip, suffix>> \in bad

\* build returns Err through a `?`: its accumulators are dropped, no cache is produced
BuildReturnsErr ==
    /\ pc' = "failed"
    /\ ic' = NoCache
    /\ exif_iter' = NoOrder
    /\ zip_files' = <<>>
    /\ next_zip' = 1
    /\ zip_infos' = {}
    /\ exif_cache' = EmptyMap
    /\ by_year_month' = EmptyMap
    /\ last' = NoLast

\* build, lines 93-97: fresh accumulators and the archive list, or the error of
\* list_directory_zip_files
BuildBegin ==
    /\ pc \in {"idle", "failed"}
    /\ fresh' = \A z \in ZipNames : ~exif_file[z].exists /\ ~ym_file[z].exists
    /\ rerun' = (ic.built /\ \A z \in ZipNames : exif_file[z].exists /\ ym_file[z].exists)
    /\ wrote' = FALSE
    /\ ret' = NoRet
    /\ IF is_dir(path_kind)
       THEN /\ pc' = "running"
            /\ zip_files' = list_directory_zip_files(dir)
            /\ next_zip' = 1
            /\ zip_infos' = {}
            /\ exif_cache' = EmptyMap
            /\ by_year_month' = EmptyMap
            /\ last' = NoLast
            /\ UNCHANGED <<ic, exif_iter>>
       ELSE BuildReturnsErr
    /\ UNCHANGED <<dir, exif_file, ym_file, overflow_checks, query>>
    /\ UNCHANGED <<path_kind, corrupt, other_vars, late_vars>>

\* build, lines 98-208: the loop body for the archive zip_files[next_zip]
BuildArchive ==
    /\ pc = "running"
    /\ next_zip <= Len(zip_files)
    /\ LET zip == zip_files[next_zip]
           images == list_zip_archive(dir, zip)
           make_exif == exif_file_missing(exif_file[zip])
           make_ym == ym_file_missing(ym_file[zip])
           exif_text == IF make_exif
                        THEN exif_to_json(to_serialized(
                                 extract_all_exifs_from_zip_archive(dir, zip)))
                        ELSE exif_file[zip].content
           extract_exif_serialized == exif_from_json(exif_text)
           extract_exif == load_exif_cache(extract_exif_serialized)
           merged == extend(exif_cache, extract_exif)
           source == fold_source(extract_exif, merged)
       IN  IF ~make_exif /\ json_unparsable(corrupt, zip, "exif")
           THEN \* line 139
                /\ BuildReturnsErr
                /\ UNCHANGED <<exif_file, ym_file, wrote>>
           ELSE IF ~make_ym /\ json_unparsable(corrupt, zip, "by_year_month")
           THEN \* line 191
                /\ BuildReturnsErr
                /\ exif_file' = [exif_file EXCEPT ![zip] = FileOf(exif_text)]
                /\ wrote' = (wrote \/ make_exif)
                /\ UNCHANGED ym_file
           ELSE \E ym_text \in (IF make_ym
                                THEN {ym_to_json(fold_by_year_month(source, ord)) :
                                         ord \in Orders(DOMAIN source)}
                                ELSE {ym_file[zip].content}) :
                  /\ zip_infos' = zip_infos \cup
                                    {PhotoInfo(zip, image[2], image[1]) : image \in images}
                  /\ exif_file' = [exif_file EXCEPT ![zip] = FileOf(exif_text)]
                  /\ exif_cache' = merged
                  /\ ym_file' = [ym_file EXCEPT ![zip] = FileOf(ym_text)]
                  /\ by_year_month' = merge_by_year_month(by_year_month,
                                                          ym_from_json(ym_text))
                  /\ last' = [zip |-> zip,
                              exif_existed |-> exif_file[zip].exists,
                              ym_existed |-> ym_file[zip].exists,
                              extracted |-> make_exif, wrote_exif |-> make_exif,
                              folded |-> make_ym, wrote_ym |-> make_ym]
                  /\ wrote' = (wrote \/ make_exif \/ make_ym)
                  /\ next_zip' = next_zip + 1
                  /\ UNCHANGED <<pc, zip_files, ic, exif_iter>>
    /\ UNCHANGED <<dir, fresh, rerun, overflow_checks, query, ret>>
    /\ UNCHANGED <<path_kind, corrupt, other_vars, late_vars>>

\* build, lines 209-215: the cache is returned; images is the set in iteration order
BuildFinish ==
    /\ pc = "running"
    /\ next_zip > Len(zip_files)
    /\ \E images \in Orders(zip_infos) :
          ic' = [built |-> TRUE, images |-> images, exif_cache |-> exif_cache,
                 by_year_month |-> by_year_month]
    /\ pc' = "idle"
    /\ last' = NoLast
    /\ zip_files' = <<>>
    /\ next_zip' = 1
    /\ zip_infos' = {}
    /\ exif_cache' = EmptyMap
    /\ by_year_month' = EmptyMap
    /\ exif_iter' = NoOrder
    /\ UNCHANGED <<dir, exif_file, ym_file, fresh, rerun, wrote, overflow_checks, query, ret>>
    /\ UNCHANGED <<path_kind, corrupt, other_vars, late_vars>>

\* with the server stopped (its cache gone), an operator deletes a cache file to force
\* the rebuild on the next run
DeleteExifFile ==
    /\ pc \in {"idle", "failed"}
    /\ pc' = "idle"
    /\ \E z \in ZipNames :
          /\ exif_file[z].exists
          /\ exif_file' = [exif_file EXCEPT ![z] = NoFile]
          /\ corrupt' = corrupt \ {<<z, "exif">>}
    /\ ic' = NoCache
    /\ exif_iter' = NoOrder
    /\ ret' = NoRet
    /\ UNCHANGED <<dir, ym_file, zip_files, next_zip, zip_infos, exif_cache,
                   by_year_month, last, fresh, rerun, wrote, overflow_checks, query>>
    /\ UNCHANGED <<path_kind, other_vars, late_vars>>

DeleteYmFile ==
    /\ pc \in {"idle", "failed"}
    /\ pc' = "idle"
    /\ \E z \in ZipNames :
          /\ ym_file[z].exists
          /\ ym_file' = [ym_file EXCEPT ![z] = NoFile]
          /\ corrupt' = corrupt \ {<<z, "by_year_month">>}
    /\ ic' = NoCache
    /\ exif_iter' = NoOrder
    /\ ret' = NoRet
    /\ UNCHANGED <<dir, exif_file, zip_files, next_zip, zip_infos, exif_cache,
                   by_year_month, last, fresh, rerun, wrote, overflow_checks, query>>
    /\ UNCHANGED <<path_kind, other_vars, late_vars>>

Next == BuildBegin \/ BuildArchive \/ BuildFinish \/ DeleteExifFile \/ DeleteYmFile

Spec == Init /\ [][Next]_vars

\* ------------------------------------------------------------------------
\* Properties of the build
\* ------------------------------------------------------------------------

BuildDone == pc = "idle" /\ ic.built

\* the places <<year, month, position>> of the TemporalIndex that hold the photo p
Places(ym, p) ==
    {place \in UNION {UNION {{<<y, mth, k>> : k \in 1..Len(ym[y][mth])} :
                               mth \in DOMAIN ym[y]} : y \in DOMAIN ym} :
        ym[place[1]][place[2]][place[3]] = p}

\* every photo held anywhere in the TemporalIndex
Indexed(ym) == UNION {UNION {Range(ym[y][mth]) : mth \in DOMAIN ym[y]} : y \in DOMAIN ym}

\* C1: after every successful build, whichever cache files existed before it, every key
\* of the ExifIndex occurs exactly once in the TemporalIndex, under the year and month of
\* its record (the 0/0 bucket included), and the TemporalIndex holds no other photo.
C1_TemporalGroupsExif ==
    BuildDone =>
        /\ \A p \in DOMAIN ic.exif_cache :
              /\ Cardinality(Places(ic.by_year_month, p)) = 1
              /\ \A place \in Places(ic.by_year_month, p) :
                    /\ place[1] = ic.exif_cache[p].year
                    /\ place[2] = ic.exif_cache[p].month
        /\ Indexed(ic.by_year_month) \subseteq DOMAIN ic.exif_cache

\* a build that found some cache files (not all) has indexed photos of two archives, one
\* of them in the 0/0 bucket
C1_Witness ==
    /\ BuildDone /\ ~fresh /\ ~rerun
    /\ \E p, q \in DOMAIN ic.exif_cache :
          /\ p.zip_file_name # q.zip_file_name
          /\ ic.exif_cache[p].year = 0 /\ ic.exif_cache[p].month = 0
          /\ ic.exif_cache[q].year # 0

\* C2 (as amended): a second build with the cache files of the first all present writes
\* no cache file, leaves every cache file unchanged and returns the same ExifIndex, the
\* same TemporalIndex and the same set of images as the first.
C2_RebuildSameIndices ==
    [][(pc = "running" /\ rerun) =>
          /\ exif_file' = exif_file /\ ym_file' = ym_file /\ ~wrote'
          /\ (pc' = "idle" =>
                /\ ic'.exif_cache = ic.exif_cache
                /\ ic'.by_year_month = ic.by_year_month
                /\ Range(ic'.images) = Range(ic.images))]_vars

\* C2 (as claimed): ... and the images list itself is identical to the first run's.
C2_RebuildIdentical ==
    [][(pc = "running" /\ rerun) =>
          /\ exif_file' = exif_file /\ ym_file' = ym_file /\ ~wrote'
          /\ (pc' = "idle" =>
                /\ ic'.exif_cache = ic.exif_cache
                /\ ic'.by_year_month = ic.by_year_month
                /\ ic'.images = ic.images)]_vars

\* a second run over kept files has finished, with two photos sharing one bucket
C2_Witness ==
    /\ BuildDone /\ rerun
    /\ Len(ic.images) >= 2
    /\ \E y \in DOMAIN ic.by_year_month : \E mth \in DOMAIN ic.by_year_month[y] :
          Len(ic.by_year_month[y][mth]) >= 2

\* the concatenation, in archive-list order, of the lists the .by_year_month.json files
\* hold for (y, mth)
RECURSIVE ConcatOnDisk(_, _, _)
ConcatOnDisk(zips, y, mth) ==
    IF zips = <<>> THEN <<>>
    ELSE LET part == ym_from_json(ym_file[Head(zips)].content)
         IN  (IF y \in DOMAIN part /\ mth \in DOMAIN part[y] THEN part[y][mth] ELSE <<>>)
             \o ConcatOnDisk(Tail(zips), y, mth)

\* C3: after a successful build the ExifIndex has an entry, with the same record, for
\* every key of every .exif.json file, and the TemporalIndex is the per-year, per-month
\* concatenation of the .by_year_month.json files.
C3_MemoryMatchesDisk ==
    BuildDone =>
        /\ \A z \in ZipNames : \A key \in DOMAIN exif_file[z].content :
              \E p \in DOMAIN ic.exif_cache :
                 /\ serialize_as_key(p) = key
                 /\ ic.exif_cache[p] = exif_file[z].content[key]
        /\ \A y \in DOMAIN ic.by_year_month : \A mth \in DOMAIN ic.by_year_month[y] :
              ic.by_year_month[y][mth] = ConcatOnDisk(list_directory_zip_files(dir), y, mth)

\* C4: when build reaches an archive, an existing .exif.json (.by_year_month.json) file
\* means no extraction (no fold) and no write of that file; the file is built only when
\* it is absent.
C4_PresenceIsCacheHit ==
    [][(pc = "running" /\ pc' = "running") =>
          LET zip == zip_files[next_zip]
          IN  /\ exif_file[zip].exists =>
                    ~last'.extracted /\ ~last'.wrote_exif /\ exif_file' = exif_file
              /\ ~exif_file[zip].exists =>
                    last'.extracted /\ last'.wrote_exif /\ exif_file'[zip].exists
              /\ ym_file[zip].exists =>
                    ~last'.folded /\ ~last'.wrote_ym /\ ym_file' = ym_file
              /\ ~ym_file[zip].exists =>
                    last'.folded /\ last'.wrote_ym /\ ym_file'[zip].exists]_vars

\* build has just passed an archive whose .exif.json existed and whose
\* .by_year_month.json did not
C4_Witness ==
    /\ pc = "running"
    /\ last.zip # <<>>
    /\ last.exif_existed /\ ~last.extracted
    /\ ~last.ym_existed /\ last.folded
    /\ DOMAIN exif_file[last.zip].content # {}

\* the photos of the archive zip whose extraction fails (succeeds)
PhotosOf(zip, ok) ==
    LET entries == EntriesOf(dir, zip)
    IN  {PhotoInfo(zip, entries[k].name, k - 1) :
            k \in {j \in 1..Len(entries) :
                      is_image_file(entries[j].name) /\ entries[j].exif.ok = ok}}

\* C5: in a build without cache files, a photo whose extraction fails is in images and in
\* neither index, and every other photo of its archive whose extraction succeeds is indexed.
C5_FailureIsLocal ==
    (BuildDone /\ fresh) =>
        \A z \in ZipNames : \A p \in PhotosOf(z, FALSE) :
           /\ p \in Range(ic.images)
           /\ p \notin DOMAIN ic.exif_cache
           /\ p \notin Indexed(ic.by_year_month)
           /\ \A q \in PhotosOf(z, TRUE) :
                 q \in DOMAIN ic.exif_cache /\ q \in Indexed(ic.by_year_month)

\* C6: in a cache built without cache files, every photo of images whose extraction
\* succeeded has an entry in the ExifIndex, whatever its names are.
C6_ExtractedIsIndexed ==
    (BuildDone /\ fresh) =>
        \A p \in Range(ic.images) :
           p \in PhotosOf(p.zip_file_name, TRUE) => p \in DOMAIN ic.exif_cache

\* ------------------------------------------------------------------------
\* Paginated queries over the built cache (core/image_cache.rs)
\* ------------------------------------------------------------------------

Min(a, b) == IF a < b THEN a ELSE b

Max(a, b) == IF a > b THEN a ELSE b

\* offset + limit on usize: a panic with overflow checks, a wrapped sum without
usize_add(a, b, checks) ==
    IF a + b > UsizeMax /\ checks
    THEN [panic |-> TRUE, val |-> 0]
    ELSE [panic |-> FALSE, val |-> (a + b) % (2 ^ WordBits)]

\* start = offset.min(total); end = (offset + limit).min(total); &v[start..end] panics
\* when start > end
page_bounds(total, offset, limit, checks) ==
    LET sum == usize_add(offset, limit, checks)
        start == Min(offset, total)
        end == Min(sum.val, total)
    IN  IF sum.panic \/ start > end
        THEN [panic |-> TRUE, start |-> start, end |-> end]
        ELSE [panic |-> FALSE, start |-> start, end |-> end]

\* the (page, total) a paginated query returns over the full result list
paginate(fn, full, offset, limit, checks) ==
    LET b == page_bounds(Len(full), offset, limit, checks)
    IN  [NoRet EXCEPT !.fn = fn, !.offset = offset, !.limit = limit,
                      !.start = b.start, !.end = b.end,
                      !.status = IF b.panic THEN "panic" ELSE "ok",
                      !.page = IF b.panic THEN <<>> ELSE SubSeq(full, b.start + 1, b.end),
                      !.total = IF b.panic THEN 0 ELSE Len(full),
                      !.full = full]

\* PhotoCache::list_all_images
list_all_images(self, offset, limit, checks) ==
    paginate("list_all_images", self.images, offset, limit, checks)

\* an Option<String> argument
None == [some |-> FALSE, val |-> <<>>]

Some(v) == [some |-> TRUE, val |-> v]

\* PhotoCache::search_image_by_name
search_image_by_name(self, file_name, zip_file_name, offset, limit, checks) ==
    LET image_name_lower == to_lowercase(file_name)
        keep(info) ==
            LET file_condition == contains(to_lowercase(info.photo_file_name), image_name_lower)
            IN  IF zip_file_name.some
                THEN file_condition /\ contains(to_lowercase(info.zip_file_name),
                                                to_lowercase(zip_file_name.val))
                ELSE file_condition
    IN  paginate("search_image_by_name", SelectSeq(self.images, keep), offset, limit, checks)

\* PhotoCache::search_image_by_year_month: reads the global cache IC, not self
search_image_by_year_month(self, IC, year, month, offset, limit, checks) ==
    IF year \notin DOMAIN IC.by_year_month \/ month \notin DOMAIN IC.by_year_month[year]
    THEN [NoRet EXCEPT !.fn = "search_image_by_year_month", !.offset = offset,
                       !.limit = limit, !.status = "ok"]
    ELSE paginate("search_image_by_year_month", IC.by_year_month[year][month],
                  offset, limit, checks)

\* struct ExifResult
ExifResult(file, exif) == [file |-> file, exif |-> exif]

\* the filter of search_image_by_exif_tags: an Err of matches_query counts as "no match"
\* (unwrap_or(false))
exif_tag_matched(IC, zip_info, tag_name, tag_value, operator) ==
    LET r == matches_query(IC.exif_cache[zip_info], tag_name, tag_value, operator)
    IN  r.ok /\ r.val

\* results.push(ExifResult::new(zip_info.clone(), exif.clone())) for every hit
exif_results(IC, hits) ==
    [k \in 1..Len(hits) |-> ExifResult(hits[k], IC.exif_cache[hits[k]])]

\* PhotoCache::search_image_by_exif_tags: reads the global cache IC in its iteration
\* order
search_image_by_exif_tags(self, IC, order, tag_name, tag_value, operator, offset, limit, checks) ==
    LET matched(zip_info) == exif_tag_matched(IC, zip_info, tag_name, tag_value, operator)
    IN  [paginate("search_image_by_exif_tags", exif_results(IC, SelectSeq(order, matched)),
                  offset, limit, checks)
            EXCEPT !.tag = tag_name, !.value = tag_value, !.operator = operator]

\* the values a caller can pass for offset and for limit
Words == 0..UsizeMax

QueryNames == {<<>>, <<"I", "M", "G">>}

QueryZips == {None, Some(<<"A", ".", "Z">>)}

QueryMonths == {<<2021, 5>>, <<0, 0>>, <<2021, 6>>}

Operators == {"==", "!=", ">", "<", ">=", "<=", "contains", "starts_with", "ends_with",
              "=", "like", ""}

StringTags == {"model", "lens"}

FloatTags == {"aperture", "shutter_speed", "iso", "focal_len"}

IntegerTags == {"width", "height", "year", "month"}

TagNames == StringTags \cup FloatTags \cup IntegerTags \cup {"Model", "make", ""}

TagValues == {<<"x", "1", "0", "0">>, <<QuoteChar, "x", "1", "0", "0", QuoteChar>>,
              <<"6", "4", "0">>, <<"2", ".", "8">>, <<"0">>, <<"-", "1">>, <<"n", "a", "n">>,
              <<"a", "b", "c">>, <<>>}

\* the (tag, value, operator) triples the paginated search is called with
PageQueries ==
    {<<"model", <<"x", "1">>, "contains">>, <<"width", <<"0">>, ">=">>,
     <<"make", <<"x">>, "==">>, <<"model", <<"x">>, ">">>, <<"width", <<"a">>, "==">>}

\* the cache is built and no query is being answered
CacheReady == pc = "idle" /\ ic.built /\ ret.fn = "none"

QueryFrame == UNCHANGED <<dir, exif_file, ym_file, pc, zip_files, next_zip, zip_infos,
                          exif_cache, by_year_month, ic, last, fresh, rerun, wrote,
                          overflow_checks, query, path_kind, corrupt, other_vars, late_vars>>

ListAllImages ==
    /\ CacheReady
    /\ \E offset \in Words, limit \in Words :
          ret' = list_all_images(ic, offset, limit, overflow_checks)
    /\ UNCHANGED exif_iter
    /\ QueryFrame

SearchImageByName ==
    /\ CacheReady
    /\ \E file_name \in QueryNames, zip_file_name \in QueryZips,
          offset \in Words, limit \in Words :
          ret' = [search_image_by_name(ic, file_name, zip_file_name, offset, limit,
                                       overflow_checks)
                  EXCEPT !.name = file_name, !.zip = zip_file_name]
    /\ UNCHANGED exif_iter
    /\ QueryFrame

SearchImageByYearMonth ==
    /\ CacheReady
    /\ \E ym \in QueryMonths, offset \in Words, limit \in Words :
          ret' = search_image_by_year_month(ic, ic, ym[1], ym[2], offset, limit,
                                            overflow_checks)
    /\ UNCHANGED exif_iter
    /\ QueryFrame

SearchImageByExifTags ==
    /\ CacheReady
    /\ \E order \in (IF exif_iter.known THEN {exif_iter.order}
                     ELSE Orders(DOMAIN ic.exif_cache)) :
          /\ exif_iter' = [known |-> TRUE, order |-> order]
          /\ \E q \in PageQueries, offset \in Words, limit \in Words :
                ret' = search_image_by_exif_tags(ic, ic, order, q[1], q[2], q[3], offset,
                                                 limit, overflow_checks)
    /\ QueryFrame

\* the result of the query is handed to the caller
Reply ==
    /\ pc = "idle"
    /\ ret.fn # "none"
    /\ ret' = NoRet
    /\ UNCHANGED exif_iter
    /\ QueryFrame

\* the entries the directories of the query specification are filled from, in order
PageEntries ==
    << ZipEntry(<<"i", "m", "g", "1", ".", "j", "p", "g">>, TRUE, InfoX100),
       ZipEntry(<<"b", ".", "j", "p", "g">>, TRUE, InfoBare),
       ZipEntry(<<"I", "M", "G", "2", ".", "P", "N", "G">>, FALSE, InfoBare),
       ZipEntry(<<"i", "m", "g", "3", ".", "j", "p", "g">>, TRUE, InfoD5) >>

PageDirs ==
    {<< [name |-> ArchiveNames[1], entries |-> SubSeq(PageEntries, 1, Min(a, Len(PageEntries)))],
        [name |-> ArchiveNames[2], entries |-> SubSeq(PageEntries, 1, Min(b, Len(PageEntries)))],
        OtherFile >> : a \in 0..MaxEntries, b \in 0..MaxEntriesMore}

InitPage ==
    /\ dir \in PageDirs
    /\ path_kind = "dir"
    /\ overflow_checks \in BOOLEAN
    /\ InitFiles
    /\ InitOther
    /\ query = NoQuery
    /\ ret = NoRet

NextPage ==
    \/ BuildBegin \/ BuildArchive \/ BuildFinish
    \/ ListAllImages \/ SearchImageByName \/ SearchImageByYearMonth \/ SearchImageByExifTags
    \/ Reply

SpecPage == InitPage /\ [][NextPage]_vars

\* ------------------------------------------------------------------------
\* The tag query engine on its own
\* ------------------------------------------------------------------------

Records == {InfoX100, InfoD5, InfoBare}

InitQuery ==
    /\ dir = <<OtherFile>>
    /\ path_kind = "dir"
    /\ overflow_checks = FALSE
    /\ InitFiles
    /\ InitOther
    /\ query \in [self : Records, tag_name : TagNames, tag_value : TagValues,
                  operator : Operators]
    /\ ret = NoRet

\* one call of ExifInfo::matches_query
MatchesQuery ==
    /\ ret.fn = "none"
    /\ LET r == matches_query(query.self, query.tag_name, query.tag_value, query.operator)
       IN  ret' = [NoRet EXCEPT !.fn = "matches_query",
                                !.status = IF r.ok THEN "ok" ELSE "err",
                                !.matched = r.val,
                                !.tag = query.tag_name, !.value = query.tag_value,
                                !.operator = query.operator]
    /\ UNCHANGED <<dir, exif_file, ym_file, pc, zip_files, next_zip, zip_infos, exif_cache,
                   by_year_month, ic, last, fresh, rerun, wrote, overflow_checks, exif_iter,
                   query, path_kind, corrupt, other_vars, late_vars>>

NextQuery == MatchesQuery

SpecQuery == InitQuery /\ [][NextQuery]_vars

\* ------------------------------------------------------------------------
\* Properties of the queries
\* ------------------------------------------------------------------------

PagedFns == {"list_all_images", "search_image_by_name", "search_image_by_year_month",
             "search_image_by_exif_tags"}

\* C7: for every total, offset and limit, each of the four paginated queries returns a
\* page of length min(limit, max(0, total - offset)) and the full match count as total,
\* and the page is the part of the full result that starts at offset (so pages taken at
\* successive offsets concatenate to the full result without gap or overlap).
C7_PageContract ==
    ret.fn \in PagedFns =>
        /\ ret.status = "ok"
        /\ Len(ret.page) = Min(ret.limit, Max(0, Len(ret.full) - ret.offset))
        /\ ret.total = Len(ret.full)
        /\ ret.page = SubSeq(ret.full, ret.offset + 1, ret.offset + Len(ret.page))

\* C8: for every offset and limit of the machine word, search_image_by_name (the query
\* the resource handler reaches) computes slice bounds 0 <= start <= end <= total and
\* does not abort.
C8_BoundsClamped ==
    ret.fn = "search_image_by_name" =>
        /\ ret.status # "panic"
        /\ 0 <= ret.start /\ ret.start <= ret.end /\ ret.end <= Len(ret.full)

StringOperators == {"==", "!=", "contains", "starts_with", "ends_with"}

NumberOperators == {"==", "!=", ">", "<", ">=", "<="}

\* the operator is not one the tag's type allows
OperatorMismatch(tag, operator) ==
    \/ tag \in StringTags /\ operator \notin StringOperators
    \/ tag \in IntegerTags \cup FloatTags /\ operator \notin NumberOperators

\* an unknown tag, an operator the tag's type does not allow, or an unparsable literal
BadQuery(tag, value, operator) ==
    \/ tag \notin StringTags \cup FloatTags \cup IntegerTags
    \/ OperatorMismatch(tag, operator)
    \/ tag \in IntegerTags /\ ~parse_u32(value).ok
    \/ tag \in FloatTags /\ ~parse_f32(value).ok

\* C9: search_image_by_exif_tags returns an Error, not a page, for an unknown tag, an
\* operator not allowed for the tag's type, or an unparsable value of a numeric tag.
C9_BadQueryIsError ==
    (/\ ret.fn = "search_image_by_exif_tags"
     /\ ret.status # "panic"
     /\ BadQuery(ret.tag, ret.value, ret.operator)) => ret.status = "err"

\* C10: matches_query returns an error, never a boolean, for a string-typed tag with an
\* operator outside {==, !=, contains, starts_with, ends_with} and for an integer- or
\* float-typed tag with an operator outside {==, !=, >, <, >=, <=}.
C10_NoCoercion ==
    (ret.fn = "matches_query" /\ OperatorMismatch(ret.tag, ret.operator)) =>
        ret.status = "err"

\* a relational operator was evaluated on the string-typed tag model of an X100 record
C10_Witness ==
    /\ ret.fn = "matches_query"
    /\ ret.tag = "model" /\ ret.operator = ">"
    /\ query.self = InfoX100 /\ query.tag_value = <<"x", "1", "0", "0">>
    /\ ret.status = "err"

\* ------------------------------------------------------------------------
\* Extraction of one container, and queries on the record it yields
\* ------------------------------------------------------------------------

\* one tag with its display_value text, or no tag
OneTag(tag, texts) == {EmptyMap} \cup {tag :> txt : txt \in texts}

\* the containers the extraction is run on: every combination of present and absent tags
Containers ==
    {Container(FALSE, EmptyMap)} \cup
    {Container(TRUE, model @@ w @@ px @@ dt @@ ssv @@ et @@ fn) :
        model \in OneTag("Model", {<<QuoteChar, "X", "1", "0", "0", QuoteChar>>}),
        w \in OneTag("ImageWidth", {<<"6", "4", "0">>, <<"6", "4", "0", ".", "5">>}),
        px \in OneTag("PixelXDimension", {<<"a", "b", "c">>}),
        dt \in OneTag("DateTimeOriginal",
                      {<<"2", "0", "2", "1", "-", "0", "5", "-", "0", "1">>,
                       <<"g", "a", "r", "b", "l", "e", "d">>}),
        ssv \in OneTag("ShutterSpeedValue", {<<"7", ".", "9">>}),
        et \in OneTag("ExposureTime", {<<"1", "/", "2", "5", "0">>}),
        fn \in OneTag("FNumber", {<<"2", ".", "8">>, <<"f", "/", "2", ".", "8">>})}

\* the (tag, value, operator) triples asked of an extracted record
ExtractQueries ==
    {<<"model", <<"x", "1", "0", "0">>, "==">>,
     <<"model", <<QuoteChar, "x", "1", "0", "0", QuoteChar>>, "==">>,
     <<"model", <<"u", "n", "k", "n", "o", "w", "n">>, "!=">>,
     <<"model", <<"x", "1", "0", "0">>, ">">>,
     <<"make", <<"x", "1", "0", "0">>, "==">>,
     <<"width", <<"6", "4", "0">>, "==">>,
     <<"width", <<"a", "b", "c">>, "==">>,
     <<"width", <<"6", "4", "0">>, "like">>,
     <<"shutter_speed", <<"2", "5", "0">>, "==">>,
     <<"shutter_speed", <<"0">>, ">=">>,
     <<"aperture", <<"2", ".", "8">>, "==">>,
     <<"aperture", <<"a", "b", "c">>, "==">>,
     <<"aperture", <<"n", "a", "n">>, "!=">>}

ExtractFrame == UNCHANGED <<dir, exif_file, ym_file, pc, zip_files, next_zip, zip_infos,
                            exif_cache, by_year_month, ic, last, fresh, rerun, wrote,
                            overflow_checks, exif_iter, path_kind, corrupt, fetch, tmp_file,
                            late_vars>>

InitExtract ==
    /\ dir = <<OtherFile>>
    /\ path_kind = "dir"
    /\ overflow_checks = FALSE
    /\ InitFiles
    /\ InitLate
    /\ container \in Containers
    /\ extracted = NoExtracted
    /\ fetch = [t \in Threads |-> NoCall]
    /\ tmp_file = NoBytes
    /\ query = NoQuery
    /\ ret = NoRet

\* one call of extract_exif_info(image_data, false)
ExtractExifInfo ==
    /\ ~extracted.called
    /\ extracted' = [called |-> TRUE, result |-> extract_exif_info(container)]
    /\ UNCHANGED <<container, query, ret>>
    /\ ExtractFrame

\* one call of ExifInfo::matches_query on the extracted record
QueryExtracted ==
    /\ extracted.called /\ extracted.result.ok
    /\ ret.fn = "none"
    /\ \E q \in ExtractQueries :
          /\ query' = [self |-> extracted.result.info, tag_name |-> q[1], tag_value |-> q[2],
                       operator |-> q[3]]
          /\ ret' = [NoRet EXCEPT
                        !.fn = "matches_query",
                        !.status = IF matches_query(extracted.result.info, q[1], q[2], q[3]).ok
                                   THEN "ok" ELSE "err",
                        !.matched = matches_query(extracted.result.info, q[1], q[2], q[3]).val,
                        !.tag = q[1], !.value = q[2], !.operator = q[3]]
    /\ UNCHANGED <<container, extracted>>
    /\ ExtractFrame

NextExtract == ExtractExifInfo \/ QueryExtracted

SpecExtract == InitExtract /\ [][NextExtract]_vars

\* ------------------------------------------------------------------------
\* Properties of extraction and of the query engine
\* ------------------------------------------------------------------------

\* C11: matches_query returns an error for every tag name outside the fixed table, for an
\* integer-typed tag whose value is not an unsigned integer and for a float-typed tag
\* whose value is not a float, whatever the operator; for a known tag, an allowed operator
\* and a parsable value on a record produced by extraction it returns a boolean.
C11_ErrorsAndBooleans ==
    ret.fn = "matches_query" =>
        /\ BadQuery(ret.tag, ret.value, ret.operator) => ret.status = "err"
        /\ ~BadQuery(ret.tag, ret.value, ret.operator) => ret.status = "ok"

\* the text of an ASCII tag: its display_value without the surrounding quotes
ascii_text(display) == remove_char(display, QuoteChar)

\* C12: for a photo whose Model tag text is M, the query model == v on the record that
\* extraction produced matches exactly when lowercase(M) = lowercase(v).
C12_ModelCaseInsensitive ==
    (/\ ret.fn = "matches_query"
     /\ ret.tag = "model" /\ ret.operator = "=="
     /\ "Model" \in DOMAIN container.tags) =>
        /\ ret.status = "ok"
        /\ ret.matched = (to_lowercase(ascii_text(container.tags["Model"]))
                             = to_lowercase(ret.value))

\* the stored text of a float-typed tag of a record
float_field(self, tag) ==
    CASE tag = "aperture" -> self.aperture
      [] tag = "shutter_speed" -> self.shutter_speed
      [] tag = "iso" -> self.iso
      [] OTHER -> self.focal_len

\* C13: for every stored float-typed value f and parsable literal v, exactly one of
\* f == v and f != v evaluates to true, and when |f - v| is below the tolerance == is
\* true and != is false.
C13_EqNeComplementary ==
    (/\ ret.fn = "matches_query"
     /\ ret.tag \in FloatTags /\ ret.operator = "=="
     /\ parse_f32(float_field(query.self, ret.tag)).ok
     /\ parse_f32(ret.value).ok) =>
        LET ne == matches_query(query.self, ret.tag, ret.value, "!=")
        IN  /\ ret.status = "ok" /\ ne.ok
            /\ ret.matched # ne.val
            /\ F32AbsDiffLtEps(parse_f32(float_field(query.self, ret.tag)).val,
                               parse_f32(ret.value).val) => (ret.matched /\ ~ne.val)

\* C14: every record produced by extraction has aperture, shutter_speed, iso and focal_len
\* texts that parse as a float, the text being "0" when no source tag is present.
C14_FloatFieldsParse ==
    (extracted.called /\ extracted.result.ok) =>
        LET info == extracted.result.info
            absent(tags) == tags \cap DOMAIN container.tags = {}
        IN  /\ \A txt \in {info.aperture, info.shutter_speed, info.iso, info.focal_len} :
                  parse_f32(txt).ok
            /\ absent({"FNumber", "ApertureValue"}) => info.aperture = <<"0">>
            /\ absent({"ShutterSpeedValue", "ExposureTime"}) => info.shutter_speed = <<"0">>

\* C15: once the container is readable, extract_exif_info returns a record and never an
\* error, whatever the width, height, date and other tags hold.
C15_ExtractionSucceeds ==
    (extracted.called /\ container.readable) => extracted.result.ok

\* ------------------------------------------------------------------------
\* Builds over a bad path or over damaged cache files
\* ------------------------------------------------------------------------

\* the cache files of the directory: <<archive, suffix>>
CacheFiles == ZipNames \X {"exif", "by_year_month"}

\* with the server stopped, the text of an existing cache file is damaged (a torn
\* write, an edit by hand): it is no longer valid JSON
CorruptFile ==
    /\ pc \in {"idle", "failed"}
    /\ pc' = "idle"
    /\ \E f \in CacheFiles :
          /\ IF f[2] = "exif" THEN exif_file[f[1]].exists ELSE ym_file[f[1]].exists
          /\ f \notin corrupt
          /\ corrupt' = corrupt \cup {f}
    /\ ic' = NoCache
    /\ exif_iter' = NoOrder
    /\ ret' = NoRet
    /\ UNCHANGED <<dir, exif_file, ym_file, zip_files, next_zip, zip_infos, exif_cache,
                   by_year_month, last, fresh, rerun, wrote, overflow_checks, query>>
    /\ UNCHANGED <<path_kind, other_vars, late_vars>>

\* the image_dir path is a directory of archives, a plain file, or missing
InitFail ==
    /\ path_kind \in {"dir", "file", "missing"}
    /\ dir \in (IF path_kind = "dir" THEN PageDirs ELSE {<<>>})
    /\ overflow_checks = FALSE
    /\ InitFiles
    /\ InitOther
    /\ query = NoQuery
    /\ ret = NoRet

NextFail ==
    \/ BuildBegin \/ BuildArchive \/ BuildFinish
    \/ DeleteExifFile \/ DeleteYmFile \/ CorruptFile

SpecFail == InitFail /\ [][NextFail]_vars

\* C16: a build that runs while any cache file of any archive is unparsable returns an
\* error and produces no cache (not even for the other archives), and it leaves the
\* damaged file as it is, so every later build fails too until the file is deleted.
C16_CorruptFileFailsBuild ==
    [][/\ (pc = "running" /\ pc' # "running" /\ corrupt # {}) =>
             (pc' = "failed" /\ ~ic'.built)
       /\ (pc = "running" \/ pc' = "running") => corrupt' = corrupt]_vars

\* a build has failed on a damaged file of one archive while the cache files of another
\* archive, which holds photos, are intact
C16_Witness ==
    /\ pc = "failed"
    /\ \E bad \in corrupt : \E z \in ZipNames :
          /\ z # bad[1]
          /\ exif_file[z].exists /\ ym_file[z].exists
          /\ DOMAIN exif_file[z].content # {}
          /\ \A f \in corrupt : f[1] # z

\* C17: when image_dir is missing or is not a directory, build returns an error and
\* writes no cache file.
C17_BadPathFailsBuild ==
    [][path_kind # "dir" =>
          /\ pc' = "failed" /\ ~ic'.built
          /\ ~wrote' /\ exif_file' = exif_file /\ ym_file' = ym_file]_vars

\* build has returned its error for a path that is a plain file
C17_Witness == path_kind = "file" /\ pc = "failed" /\ ~ic.built

\* C18: after a build, the TemporalIndex list of every (year, month) is the concatenation,
\* in archive-list order, of the lists the archives contribute to that bucket, and every
\* bucket an archive contributes to is present.
C18_MergeAccumulates ==
    BuildDone =>
        /\ \A y \in DOMAIN ic.by_year_month : \A mth \in DOMAIN ic.by_year_month[y] :
              ic.by_year_month[y][mth] = ConcatOnDisk(list_directory_zip_files(dir), y, mth)
        /\ \A z \in ZipNames :
              LET part == ym_from_json(ym_file[z].content)
              IN  \A y \in DOMAIN part : \A mth \in DOMAIN part[y] :
                     /\ y \in DOMAIN ic.by_year_month
                     /\ mth \in DOMAIN ic.by_year_month[y]
                     /\ Range(part[y][mth]) \subseteq Range(ic.by_year_month[y][mth])

\* two archives have contributed photos to the same bucket
C18_Witness ==
    /\ BuildDone
    /\ \E y \in DOMAIN ic.by_year_month : \E mth \in DOMAIN ic.by_year_month[y] :
          \E p, q \in Range(ic.by_year_month[y][mth]) : p.zip_file_name # q.zip_file_name

\* ------------------------------------------------------------------------
\* Fetching image bytes: PhotoCache::image_data on several threads
\* ------------------------------------------------------------------------

\* an archive entry as image_data sees it: the outcome of extract_exif_info on its
\* bytes, its embedded thumbnail ("ok", "none", or "oob" for an offset/length pair that
\* points past the EXIF buffer) and whether image::load_from_memory can decode it
FetchEntry(name, ok, info, thm, decodable) ==
    [name |-> name, exif |-> [ok |-> ok, info |-> info], thm |-> thm,
     decodable |-> decodable]

\* the directory the fetches run on
FetchDir ==
    << [name |-> ArchiveNames[1],
        entries |-> << FetchEntry(<<"i", "m", "g", "1", ".", "j", "p", "g">>, TRUE, InfoX100,
                                  "none", TRUE),
                       FetchEntry(<<"b", ".", "j", "p", "g">>, TRUE, InfoBare, "ok", TRUE),
                       FetchEntry(<<"x", ".", "j", "p", "g">>, FALSE, InfoBare, "none",
                                  FALSE) >>],
       [name |-> ArchiveNames[2],
        entries |-> << FetchEntry(<<"I", "M", "G", "2", ".", "P", "N", "G">>, FALSE, InfoBare,
                                  "none", TRUE),
                       FetchEntry(<<"t", ".", "j", "p", "g">>, TRUE, InfoD5, "oob", TRUE) >>] >>

\* a PhotoRef of the cache for entry index of archive k; the index may be stale
Ref(k, index) ==
    PhotoInfo(ArchiveNames[k],
              IF index < Len(FetchDir[k].entries) THEN FetchDir[k].entries[index + 1].name
              ELSE <<"o", "l", "d", ".", "j", "p", "g">>,
              index)

\* the photo lists image_data is called with
FetchRequests ==
    { <<Ref(1, 0)>>, <<Ref(1, 1)>>, <<Ref(2, 0)>>, <<Ref(1, 0), Ref(2, 0)>>,
      <<Ref(1, 5)>>, <<Ref(1, 0), Ref(1, 5)>>, <<Ref(1, 2), Ref(2, 7)>>, <<Ref(2, 1)>> }

\* zip::extract_zip_archive: the entries at the indices file_number, or the error of the
\* first index that is out of bounds
extract_zip_archive(files, zip_file_name, file_number) ==
    LET is_file == \E k \in 1..Len(files) : files[k].name = zip_file_name
        entries == EntriesOf(files, zip_file_name)
        out(idx) == idx >= Len(entries)
        bad == SelectSeq(file_number, out)
    IN  IF ~is_file
        THEN [ok |-> FALSE, named |-> FALSE, index |-> 0, result |-> <<>>]
        ELSE IF bad # <<>>
        THEN [ok |-> FALSE, named |-> TRUE, index |-> bad[1], result |-> <<>>]
        ELSE [ok |-> TRUE, named |-> FALSE, index |-> 0,
              result |-> [k \in 1..Len(file_number) |->
                            [info |-> PhotoInfo(zip_file_name,
                                                entries[file_number[k] + 1].name,
                                                file_number[k]),
                             entry |-> entries[file_number[k] + 1]]]]

\* image_data, lines 403-408: the indices requested of the archive zip, in request order
indices_of(request, zip) ==
    LET in_zip(info) == info.zip_file_name = zip
        refs == SelectSeq(request, in_zip)
    IN  [k \in 1..Len(refs) |-> refs[k].photo_index_in_zip]

\* image_data after a photo is pushed: the next photo, the next archive, or Ok(images)
pushed(call, image) ==
    LET rest == Tail(call.unpacked)
    IN  [call EXCEPT !.images = Append(call.images, image),
                     !.unpacked = rest,
                     !.pc = IF rest # <<>> THEN "photo"
                            ELSE IF call.arxives # <<>> THEN "extract" ELSE "done",
                     !.status = IF rest = <<>> /\ call.arxives = <<>> THEN "ok" ELSE "none"]

\* the thread aborts inside image_data
panicked(call) == [call EXCEPT !.pc = "done", !.status = "panic", !.images = <<>>]

FetchFrame == UNCHANGED <<dir, exif_file, ym_file, pc, zip_files, next_zip, zip_infos,
                          exif_cache, by_year_month, ic, last, fresh, rerun, wrote,
                          overflow_checks, exif_iter, query, ret, path_kind, corrupt,
                          container, extracted, late_vars>>

\* a thread enters image_data; arxives is a HashMap, visited in an unspecified order
FetchCall(t) ==
    /\ fetch[t].pc = "idle"
    /\ \E request \in FetchRequests :
          \E order \in Orders({request[k].zip_file_name : k \in 1..Len(request)}) :
             fetch' = [fetch EXCEPT ![t] = [NoCall EXCEPT !.pc = "extract",
                                                           !.request = request,
                                                           !.arxives = order]]
    /\ UNCHANGED tmp_file
    /\ FetchFrame

\* image_data, line 411: extract_zip_archive for the next archive, with `?`
FetchExtract(t) ==
    /\ fetch[t].pc = "extract"
    /\ LET call == fetch[t]
           zip_file == Head(call.arxives)
           unpacked == extract_zip_archive(dir, zip_file, indices_of(call.request, zip_file))
       IN  fetch' = [fetch EXCEPT ![t] =
                        IF unpacked.ok
                        THEN [call EXCEPT !.pc = "photo", !.arxives = Tail(call.arxives),
                                          !.unpacked = unpacked.result]
                        ELSE [call EXCEPT !.pc = "done", !.status = "err",
                                          !.images = <<>>, !.unpacked = <<>>,
                                          !.err_index = unpacked.index,
                                          !.err_zip = zip_file]]
    /\ UNCHANGED tmp_file
    /\ FetchFrame

\* image_data, lines 413-429, up to the save of resize: the embedded thumbnail is pushed
\* at once; otherwise the image is decoded, scaled and saved to /tmp/x.jpg
FetchPhoto(t) ==
    /\ fetch[t].pc = "photo"
    /\ LET call == fetch[t]
           photo == Head(call.unpacked)
       IN  IF photo.entry.exif.ok /\ photo.entry.thm = "ok"
           THEN /\ fetch' = [fetch EXCEPT ![t] =
                                pushed(call, [info |-> photo.info,
                                              bytes |-> Bytes("thm", photo.info)])]
                /\ UNCHANGED tmp_file
           ELSE IF (photo.entry.exif.ok /\ photo.entry.thm = "oob") \/ ~photo.entry.decodable
           THEN /\ fetch' = [fetch EXCEPT ![t] = panicked(call)]
                /\ UNCHANGED tmp_file
           ELSE /\ fetch' = [fetch EXCEPT ![t] = [call EXCEPT !.pc = "read"]]
                /\ tmp_file' = Bytes("resized", photo.info)
    /\ FetchFrame

\* resize, line 387: /tmp/x.jpg is read back and its bytes are pushed for the photo
FetchRead(t) ==
    /\ fetch[t].pc = "read"
    /\ fetch' = [fetch EXCEPT ![t] =
                    pushed(fetch[t], [info |-> Head(fetch[t].unpacked).info,
                                      bytes |-> tmp_file])]
    /\ UNCHANGED tmp_file
    /\ FetchFrame

InitFetch ==
    /\ dir = FetchDir
    /\ path_kind = "dir"
    /\ overflow_checks = FALSE
    /\ InitFiles
    /\ InitOther
    /\ query = NoQuery
    /\ ret = NoRet

NextFetch ==
    \E t \in Threads : FetchCall(t) \/ FetchExtract(t) \/ FetchPhoto(t) \/ FetchRead(t)

SpecFetch == InitFetch /\ [][NextFetch]_vars

\* the refs of a request whose index is not an entry of their archive
OutOfRange(request) ==
    {request[k] : k \in {j \in 1..Len(request) :
        request[j].photo_index_in_zip >= Len(EntriesOf(dir, request[j].zip_file_name))}}

\* C19: an image_data call given a PhotoRef whose index is out of range returns an error
\* that names the index and the archive of such a ref, and no partial list.
C19_OutOfRangeIsError ==
    \A t \in Threads :
        (fetch[t].pc = "done" /\ OutOfRange(fetch[t].request) # {}) =>
            /\ fetch[t].status = "err"
            /\ fetch[t].images = <<>>
            /\ \E ref \in OutOfRange(fetch[t].request) :
                  /\ ref.photo_index_in_zip = fetch[t].err_index
                  /\ ref.zip_file_name = fetch[t].err_zip

\* C20: in every interleaving of concurrent image_data calls, the bytes a call returns
\* for a photo are derived from that photo, never from a photo of another call.
C20_FetchesIsolated ==
    \A t \in Threads : \A k \in 1..Len(fetch[t].images) :
        fetch[t].images[k].bytes.of = fetch[t].images[k].info

\* ------------------------------------------------------------------------
\* The detection sweep, PhotoCache::crawl_and_analyse (core/image_cache.rs)
\* ------------------------------------------------------------------------

\* the chunk length of photos.chunks(100)
ChunkSize == 100

\* the largest archive of the sweep holds MaxChunks full chunks and one photo more
MaxChunks == 2

RECURSIVE chunks(_, _)
\* one chunk holding the whole slice
chunks_whole(s, n) == IF s = <<>> THEN <<>> ELSE <<s>>

\* slice::chunks: consecutive pieces of length n, the last one possibly shorter
chunks(s, n) ==
    IF s = <<>> THEN <<>>
    ELSE IF Len(s) <= n THEN <<s>>
    ELSE <<SubSeq(s, 1, n)>> \o chunks(SubSeq(s, n + 1, Len(s)), n)

\* lines 230-236: the photos of self.images grouped by archive, in the order of images
group_by_zip_archive(images) ==
    [z \in {images[k].zip_file_name : k \in 1..Len(images)} |->
        LET in_zip(info) == info.zip_file_name = z IN SelectSeq(images, in_zip)]

\* a result file that is never found
result_file_exists_never(file) == FALSE

\* line 239: Path::new(&result_file_name).exists()
result_file_exists(file) == file.exists

\* what the detector reports for one photo (a function of the photo's bytes)
predict(photo_info) ==
    IF photo_info.photo_index_in_zip % 2 = 0 THEN <<"person">> ELSE <<>>

\* yolo::analyze_images_using_yolo on the photos that were extracted
analyze_images_using_yolo(unpacked) ==
    [k \in 1..Len(unpacked) |->
        [photo_info |-> unpacked[k], object_detection |-> predict(unpacked[k])]]

\* what can happen to one chunk: the archive cannot be read or an index is gone
\* (extract_zip_archive gives Err), the temporary file of the detector cannot be written
\* (analyze_images_using_yolo gives Err), or both calls succeed
ChunkOutcomes == {"ok", "extract_err", "detect_err"}

\* PhotoCache::yolo_v8_analysis on one chunk; a chunk holds photos of one archive, so
\* the loop over arxives runs once
yolo_v8_analysis(image_infos, outcome) ==
    IF outcome = "ok" THEN Ok(analyze_images_using_yolo(image_infos)) ELSE Err(<<>>)

\* lines 255-260: the detections of one chunk enter the per-archive map by key
insert_detections(per_archive, image_detections) ==
    extend(per_archive,
           [key \in {serialize_as_key(image_detections[k].photo_info) :
                        k \in 1..Len(image_detections)} |->
               LET k == CHOOSE j \in 1..Len(image_detections) :
                            serialize_as_key(image_detections[j].photo_info) = key
               IN  image_detections[k].object_detection])

\* a map that is persisted only when it holds a detection
persist_nonempty(file, per_archive) ==
    IF per_archive = EmptyMap THEN file ELSE FileOf(per_archive)

\* lines 270-283: the per-archive map is written to the result file (the image
\* directory is writable, as it is for the cache files of build)
persist(file, per_archive) == FileOf(per_archive)

\* the archive the sweep is at
SweepArchiveName == sweep.order[sweep.k]

\* the chunks of the archive the sweep is at
SweepChunks == chunks(sweep.by_zip_archive[SweepArchiveName], ChunkSize)

SweepFrame == UNCHANGED <<dir, exif_file, ym_file, pc, zip_files, next_zip, zip_infos,
                          exif_cache, by_year_month, ic, last, fresh, rerun, wrote,
                          overflow_checks, exif_iter, query, ret, path_kind, corrupt,
                          other_vars, process, client, own, key_io>>

\* crawl_and_analyse is entered: lines 230-236, and the HashMap by_zip_archive gets its
\* iteration order
SweepBegin ==
    /\ pc = "idle" /\ ic.built /\ sweep.pc = "idle"
    /\ LET grouped == group_by_zip_archive(ic.images)
       IN  \E order \in Orders(DOMAIN grouped) :
              sweep' = [NoSweep EXCEPT !.pc = "loop", !.by_zip_archive = grouped,
                                       !.order = order,
                                       !.start_files = od_file,
                                       !.extractions = [z \in DOMAIN grouped |-> 0],
                                       !.detections = [z \in DOMAIN grouped |-> 0],
                                       !.writes = [z \in DOMAIN grouped |-> 0],
                                       !.succeeded = sweep.succeeded,
                                       !.failed = sweep.failed,
                                       !.runs = sweep.runs]
    /\ UNCHANGED od_file
    /\ SweepFrame

\* lines 237-245: the next archive is skipped when its result file exists; after the
\* last archive the call returns
SweepArchive ==
    /\ sweep.pc = "loop"
    /\ IF sweep.k > Len(sweep.order)
       THEN sweep' = [sweep EXCEPT !.pc = "idle", !.runs = Min(sweep.runs + 1, 2)]
       ELSE IF result_file_exists(od_file[SweepArchiveName])
       THEN sweep' = [sweep EXCEPT !.k = sweep.k + 1]
       ELSE sweep' = [sweep EXCEPT !.pc = "chunks", !.chunk = 1, !.per_archive = EmptyMap]
    /\ UNCHANGED od_file
    /\ SweepFrame

\* lines 246-265: one chunk goes through yolo_v8_analysis; an Err is logged and the
\* loop goes on
SweepChunk ==
    /\ sweep.pc = "chunks"
    /\ sweep.chunk <= Len(SweepChunks)
    /\ \E outcome \in ChunkOutcomes :
          LET z == SweepArchiveName
              r == yolo_v8_analysis(SweepChunks[sweep.chunk], outcome)
          IN  sweep' = [sweep EXCEPT
                  !.chunk = sweep.chunk + 1,
                  !.extractions[z] = sweep.extractions[z] + 1,
                  !.detections[z] = sweep.detections[z]
                                      + (IF outcome = "extract_err" THEN 0 ELSE 1),
                  !.per_archive = IF r.ok THEN insert_detections(sweep.per_archive, r.val)
                                  ELSE sweep.per_archive,
                  !.succeeded = IF r.ok THEN sweep.succeeded \cup {<<z, sweep.chunk>>}
                                ELSE sweep.succeeded,
                  !.failed = IF r.ok THEN sweep.failed
                             ELSE sweep.failed \cup {<<z, sweep.chunk>>}]
    /\ UNCHANGED od_file
    /\ SweepFrame

\* lines 266-283: after the last chunk the per-archive map is persisted
SweepWrite ==
    /\ sweep.pc = "chunks"
    /\ sweep.chunk > Len(SweepChunks)
    /\ LET z == SweepArchiveName
       IN  /\ od_file' = [od_file EXCEPT ![z] = persist(od_file[z], sweep.per_archive)]
           /\ sweep' = [sweep EXCEPT !.pc = "loop", !.k = sweep.k + 1,
                                     !.writes[z] = sweep.writes[z] + 1]
    /\ SweepFrame

\* between two sweeps an operator deletes a result file to have the archive analysed
\* again
DeleteResultFile ==
    /\ sweep.pc = "idle"
    /\ \E z \in DOMAIN od_file :
          /\ od_file[z].exists
          /\ od_file' = [od_file EXCEPT ![z] = NoFile]
          /\ sweep' = [NoSweep EXCEPT !.succeeded = {c \in sweep.succeeded : c[1] # z},
                                      !.failed = {c \in sweep.failed : c[1] # z}]
    /\ SweepFrame

\* the name of entry k of an archive of the sweep
SweepPhotoName(k) == Digits(k) \o <<".", "j", "p", "g">>

\* an archive of n photos without EXIF data
SweepArchiveOf(zip, n) ==
    [name |-> zip, entries |-> [k \in 1..n |-> ZipEntry(SweepPhotoName(k - 1), FALSE, InfoBare)]]

\* the numbers of photos of the archives of the sweep
SweepSizes == {1, ChunkSize, ChunkSize + 1, MaxChunks * ChunkSize + 1}

\* the images list of a cache built over files
SweepImages(files) ==
    LET photos(k) == [j \in 1..Len(files[k].entries) |->
                         PhotoInfo(files[k].name, files[k].entries[j].name, j - 1)]
    IN  IF Len(files) = 1 THEN photos(1) ELSE photos(1) \o photos(2)

\* the state after a build over one or two archives that hold no EXIF data: the cache
\* files are written, ic lists every photo (here archive by archive, one of the orders
\* of the HashSet), no result file yet
InitSweep ==
    /\ \E na \in SweepSizes, nb \in {0, 1, ChunkSize + 1} :
          dir = IF nb = 0 THEN <<SweepArchiveOf(ArchiveNames[1], na)>>
                ELSE <<SweepArchiveOf(ArchiveNames[1], na), SweepArchiveOf(ArchiveNames[2], nb)>>
    /\ path_kind = "dir"
    /\ overflow_checks = FALSE
    /\ exif_file = [z \in ZipNames |-> FileOf(EmptyMap)]
    /\ ym_file = [z \in ZipNames |-> FileOf(EmptyMap)]
    /\ pc = "idle"
    /\ zip_files = <<>>
    /\ next_zip = 1
    /\ zip_infos = {}
    /\ exif_cache = EmptyMap
    /\ by_year_month = EmptyMap
    /\ ic = [built |-> TRUE, images |-> SweepImages(dir), exif_cache |-> EmptyMap,
             by_year_month |-> EmptyMap]
    /\ last = NoLast
    /\ fresh = TRUE
    /\ rerun = FALSE
    /\ wrote = TRUE
    /\ exif_iter = NoOrder
    /\ corrupt = {}
    /\ InitOther
    /\ query = NoQuery
    /\ ret = NoRet

NextSweep == SweepBegin \/ SweepArchive \/ SweepChunk \/ SweepWrite \/ DeleteResultFile

SpecSweep == InitSweep /\ [][NextSweep]_vars

\* ------------------------------------------------------------------------
\* Properties of the detection sweep
\* ------------------------------------------------------------------------

\* the archives of the sweep in progress (or of the latest one)
SweepArchives == DOMAIN sweep.by_zip_archive

\* the photos of the chunks cs of archive z
ChunkPhotos(z, cs) ==
    LET parts == chunks(sweep.by_zip_archive[z], ChunkSize)
    IN  UNION {Range(parts[c]) : c \in cs \cap (1..Len(parts))}

\* the chunk numbers of archive z in the set of <<archive, chunk>> pairs
ChunksIn(pairs, z) == {c[2] : c \in {d \in pairs : d[1] = z}}

\* a sweep is running, or has run, after a completed sweep with no deletion in between
SecondRun == (sweep.runs >= 1 /\ sweep.pc # "idle") \/ sweep.runs = 2

ExpectedDetections(z) ==
    LET photos == ChunkPhotos(z, ChunksIn(sweep.succeeded, z))
    IN  [key \in {serialize_as_key(p) : p \in photos} |->
            predict(CHOOSE p \in photos : serialize_as_key(p) = key)]

\* the sweep has gone through archive z in the current call
Processed(z) ==
    /\ ~sweep.start_files[z].exists
    /\ \E k \in 1..Len(sweep.order) :
          sweep.order[k] = z /\ (k < sweep.k \/ sweep.pc = "idle")

MaxServed == 2

StartFrame == UNCHANGED <<dir, exif_file, ym_file, pc, zip_files, next_zip, zip_infos,
                          exif_cache, by_year_month, ic, last, fresh, rerun, wrote,
                          overflow_checks, exif_iter, query, ret, path_kind, corrupt,
                          other_vars, od_file, sweep, client, own, key_io>>

\* Deref of a lazy static by the code at place who: the first one runs the initialiser
\* (lib.rs:11-12), a later one finds the value
deref_IC(p, who) ==
    IF p.lazy = "uninit" THEN [p EXCEPT !.lazy = "running", !.first_use = who] ELSE p

\* main.rs:16, the first statement of main after the tracing set-up uses IC
MainDeref ==
    /\ process.pc = "main"
    /\ process' = [deref_IC(process, "main") EXCEPT !.pc = "deref"]
    /\ StartFrame

\* the initialiser of IC runs PhotoCache::build(IMAGE_DIR)
LazyBuildBegin ==
    /\ process.lazy = "running" /\ pc = "idle" /\ ~ic.built
    /\ BuildBegin

LazyBuildArchive ==
    /\ process.lazy = "running"
    /\ BuildArchive

LazyBuildFinish ==
    /\ process.lazy = "running"
    /\ BuildFinish

\* build returned Ok: unwrap gives the cache, IC is initialised and the code that
\* dereferenced it goes on (main goes on to start_server)
LazyReady ==
    /\ process.lazy = "running" /\ pc = "idle" /\ ic.built
    /\ process' = [process EXCEPT !.lazy = "ready",
                                  !.pc = IF process.pc = "deref" THEN "searched" ELSE @]
    /\ StartFrame

\* build returned Err: unwrap panics inside the initialiser (lib.rs:12); the Once of
\* the lazy static is poisoned and the panic unwinds the code that dereferenced IC
LazyPanic ==
    /\ process.lazy = "running" /\ pc = "failed"
    /\ process' = [process EXCEPT !.lazy = "poisoned", !.pc = "panicked"]
    /\ StartFrame

\* main.rs:20, start_server().await: the handlers start to take requests
StartServer ==
    /\ process.pc = "searched"
    /\ process' = [process EXCEPT !.pc = "serving"]
    /\ StartFrame

\* a tool handler serves a request: every tool dereferences IC
HandleRequest ==
    /\ process.pc = "serving" /\ process.lazy \in {"uninit", "ready"}
    /\ process.served < MaxServed
    /\ process' = [deref_IC(process, "handler") EXCEPT
                      !.served = IF process.lazy = "ready" THEN @ + 1 ELSE @]
    /\ StartFrame

\* the process starts over an image path that is a directory of archives, a plain
\* file or missing; the build profile is debug or release
InitStart ==
    /\ path_kind \in {"dir", "file", "missing"}
    /\ dir \in (IF path_kind = "dir" THEN PageDirs ELSE {<<>>})
    /\ overflow_checks \in BOOLEAN
    /\ InitFiles
    /\ InitOther
    /\ query = NoQuery
    /\ ret = NoRet

NextStart ==
    \/ MainDeref \/ LazyBuildBegin \/ LazyBuildArchive \/ LazyBuildFinish
    \/ LazyReady \/ LazyPanic \/ StartServer \/ HandleRequest

SpecStart == InitStart /\ [][NextStart]_vars

\* C23: the cache is built once, by main before the server takes requests, never
\* first by a handler; a failed build ends start-up with an error, never with a panic
\* of the code that first uses the cache
C23_InitAtStartNoPanic ==
    /\ process.first_use # "handler"
    /\ process.served > 0 => process.lazy = "ready"
    /\ process.lazy # "poisoned"
    /\ process.pc # "panicked"

\* ------------------------------------------------------------------------
\* Properties of the search by name
\* ------------------------------------------------------------------------

\* the photo satisfies the name search of the latest query: its entry name contains
\* the name, and its archive name the filter when one is given, both without case
NameMatch(info) ==
    /\ contains(to_lowercase(info.photo_file_name), to_lowercase(ret.name))
    /\ ret.zip.some =>
          contains(to_lowercase(info.zip_file_name), to_lowercase(ret.zip.val))

\* C24: search_image_by_name reports as total the number of photos of images that
\* satisfy the name search, whatever offset and limit are, and returns only such
\* photos
C24_NameSearchTotal ==
    ret.fn = "search_image_by_name" =>
        /\ ret.status = "ok"
        /\ ret.total = Cardinality({k \in 1..Len(ic.images) : NameMatch(ic.images[k])})
        /\ \A k \in 1..Len(ret.page) : NameMatch(ret.page[k])

\* ------------------------------------------------------------------------
\* Properties of the image materializer
\* ------------------------------------------------------------------------

\* the entry of the directory a PhotoRef in range points to
EntryOf(ref) == EntriesOf(dir, ref.zip_file_name)[ref.photo_index_in_zip + 1]

\* the bytes the materializer owes for a photo: the embedded thumbnail when the EXIF
\* block is readable and carries an offset/length pair, the resized image otherwise
Materialized(ref) ==
    IF EntryOf(ref).exif.ok /\ EntryOf(ref).thm # "none"
    THEN Bytes("thm", ref) ELSE Bytes("resized", ref)

\* C25: a finished image_data call over photos of the archives returns, for every
\* photo, the embedded thumbnail when EXIF extraction succeeded and the pair is
\* present, and the resized image otherwise; a photo without readable EXIF data is no
\* error
C25_ThumbnailOrResize ==
    \A t \in Threads :
        (fetch[t].pc = "done" /\ OutOfRange(fetch[t].request) = {}) =>
            /\ fetch[t].status = "ok"
            /\ {fetch[t].images[k].info : k \in 1..Len(fetch[t].images)}
                  = Range(fetch[t].request)
            /\ \A k \in 1..Len(fetch[t].images) :
                  fetch[t].images[k].bytes = Materialized(fetch[t].images[k].info)

\* C26: no image_data call ends in a panic: each returns a list or an error
C26_FetchNeverPanics ==
    \A t \in Threads : fetch[t].pc = "done" => fetch[t].status \in {"ok", "err"}

\* ------------------------------------------------------------------------
\* The tool layer's pagination (tools/photo.rs) and a client that follows it
\* ------------------------------------------------------------------------

\* const MAX_PHOTO_FILES_SEARCH_LIMIT
MAX_PHOTO_FILES_SEARCH_LIMIT == 10000

\* the number of calls after which the model stops a client
MaxCalls == 5

\* the limits a client pages with: the tool clamps limit to 10000 and the offsets of a
\* client that follows next_offset from 0 never exceed total, so offset + limit stays
\* far from usize::MAX; the limits are kept in that regime for the narrow word
ClientLimits == 0..(UsizeMax - MaxEntries - MaxEntriesMore)

\* the paged tools of the claim
PagedTools == {"list_all_photos", "photo_search_by_name"}

\* lines 31-34 and 176-180: the tool clamps the limit and queries the cache
tool_query(self, tool, name, zip, offset, limit, checks) ==
    LET clamped == Min(limit, MAX_PHOTO_FILES_SEARCH_LIMIT)
    IN  IF tool = "list_all_photos"
        THEN list_all_images(self, offset, clamped, checks)
        ELSE search_image_by_name(self, name, zip, offset, clamped, checks)

\* lines 36 and 45 (181 and 190): next_offset = offset + infos.len(), reported when it
\* is below total
next_offset_of(offset, len, total) ==
    IF offset + len < total
    THEN [some |-> TRUE, val |-> offset + len] ELSE [some |-> FALSE, val |-> 0]

ClientFrame == UNCHANGED <<dir, exif_file, ym_file, pc, zip_files, next_zip, zip_infos,
                           exif_cache, by_year_month, ic, last, fresh, rerun, wrote,
                           overflow_checks, exif_iter, query, ret, path_kind, corrupt,
                           other_vars, od_file, sweep, process, own, key_io>>

\* (the server is up: main has built the cache IC, which is never rebuilt)

\* a client picks a tool, its arguments and a limit, and starts at offset 0
ClientStart ==
    /\ process.pc = "serving" /\ process.lazy = "ready" /\ client.pc = "idle"
    /\ \E tool \in PagedTools, limit \in ClientLimits :
          \E name \in (IF tool = "list_all_photos" THEN {<<>>} ELSE QueryNames),
             zip \in (IF tool = "list_all_photos" THEN {None} ELSE QueryZips) :
             client' = [NoClient EXCEPT !.pc = "paging", !.tool = tool, !.name = name,
                                        !.zip = zip, !.limit = limit]
    /\ ClientFrame

\* one call of the tool at the client's offset; the client keeps the page and goes on
\* from next_offset, or stops when it is null
ClientCall ==
    /\ process.pc = "serving" /\ client.pc = "paging"
    /\ client.calls < MaxCalls
    /\ LET r == tool_query(ic, client.tool, client.name, client.zip, client.offset,
                           client.limit, overflow_checks)
           next == next_offset_of(client.offset, Len(r.page), r.total)
       IN  client' = IF r.status = "panic"
                     THEN [client EXCEPT !.pc = "aborted", !.calls = @ + 1]
                     ELSE [client EXCEPT !.pc = IF next.some THEN "paging" ELSE "done",
                                         !.calls = @ + 1,
                                         !.seen = @ \o r.page,
                                         !.full = r.full,
                                         !.total = r.total,
                                         !.next_offset = next,
                                         !.offset = IF next.some THEN next.val ELSE @]
    /\ ClientFrame

\* the client is done with its answer
ClientLeave ==
    /\ client.pc \in {"done", "aborted"}
    /\ client' = NoClient
    /\ ClientFrame

\* the process starts over a directory of archives
InitClient ==
    /\ dir \in PageDirs
    /\ path_kind = "dir"
    /\ overflow_checks \in BOOLEAN
    /\ InitFiles
    /\ InitOther
    /\ query = NoQuery
    /\ ret = NoRet

NextClient ==
    \/ MainDeref \/ LazyBuildBegin \/ LazyBuildArchive \/ LazyBuildFinish
    \/ LazyReady \/ StartServer
    \/ ClientStart \/ ClientCall \/ ClientLeave

SpecClient == InitClient /\ [][NextClient]_vars

\* C27: a client that follows next_offset from offset 0 with a fixed limit advances
\* strictly with every non-null next_offset, gets a null next_offset after at most
\* total calls (one call when there is no result), and has then received every result
\* exactly once
C27_PaginationTerminates ==
    [][/\ client.pc = "paging" /\ client'.pc = "paging" => client'.offset > client.offset
       /\ client.pc = "paging" => client'.calls <= Max(1, client'.total)
       /\ client.pc = "paging" /\ client'.pc = "done" => client'.seen = client'.full
       /\ client.pc = "paging" => client'.pc # "aborted"]_vars

\* ------------------------------------------------------------------------
\* Queries on a PhotoCache instance that is not the global IC
\* ------------------------------------------------------------------------

RECURSIVE build_archives(_, _, _)
\* the loop of PhotoCache::build over a directory without cache files, as one function:
\* per archive the EXIF map goes through its JSON form, is merged, and is folded into
\* the year/month lists (in one of the iteration orders of the map)
build_archives(files, zips, acc) ==
    IF zips = <<>> THEN acc
    ELSE LET zip == Head(zips)
             images == list_zip_archive(files, zip)
             extract_exif == load_exif_cache(exif_from_json(exif_to_json(to_serialized(
                                 extract_all_exifs_from_zip_archive(files, zip)))))
             source == fold_source(extract_exif, extend(acc.exif_cache, extract_exif))
             ord == CHOOSE o \in Orders(DOMAIN source) : TRUE
             ym == ym_from_json(ym_to_json(fold_by_year_month(source, ord)))
         IN  build_archives(files, Tail(zips),
                 [zip_infos |-> acc.zip_infos \cup
                                  {PhotoInfo(zip, image[2], image[1]) : image \in images},
                  exif_cache |-> extend(acc.exif_cache, extract_exif),
                  by_year_month |-> merge_by_year_month(acc.by_year_month, ym)])

\* PhotoCache::build(image_dir) over the files of another directory
build_fresh(files) ==
    LET r == build_archives(files, list_directory_zip_files(files),
                            [zip_infos |-> {}, exif_cache |-> EmptyMap,
                             by_year_month |-> EmptyMap])
    IN  [built |-> TRUE, images |-> CHOOSE o \in Orders(r.zip_infos) : TRUE,
         exif_cache |-> r.exif_cache, by_year_month |-> r.by_year_month]

\* the directories the other instance is built over
OwnDirs == PageDirs

InstanceFrame == UNCHANGED <<dir, exif_file, ym_file, pc, zip_files, next_zip, zip_infos,
                             exif_cache, by_year_month, ic, last, fresh, rerun, wrote,
                             overflow_checks, query, path_kind, corrupt, other_vars,
                             od_file, sweep, process, client, own, key_io>>

\* own.list_all_images(0, limit)
OwnListAllImages ==
    /\ CacheReady /\ own.built
    /\ \E limit \in {1, UsizeMax} :
          ret' = list_all_images(own, 0, limit, overflow_checks)
    /\ UNCHANGED exif_iter
    /\ InstanceFrame

\* own.search_image_by_name(file_name, zip_file_name, 0, limit)
OwnSearchImageByName ==
    /\ CacheReady /\ own.built
    /\ \E file_name \in QueryNames, zip_file_name \in QueryZips, limit \in {1, UsizeMax} :
          ret' = [search_image_by_name(own, file_name, zip_file_name, 0, limit,
                                       overflow_checks)
                  EXCEPT !.name = file_name, !.zip = zip_file_name]
    /\ UNCHANGED exif_iter
    /\ InstanceFrame

\* own.search_image_by_year_month(year, month, 0, limit)
OwnSearchImageByYearMonth ==
    /\ CacheReady /\ own.built
    /\ \E ym \in QueryMonths, limit \in {1, UsizeMax} :
          ret' = [search_image_by_year_month(own, ic, ym[1], ym[2], 0, limit,
                                             overflow_checks)
                  EXCEPT !.year = ym[1], !.month = ym[2]]
    /\ UNCHANGED exif_iter
    /\ InstanceFrame

\* own.search_image_by_exif_tags(tag, value, operator, 0, limit); the map that is
\* iterated is IC.exif_cache
OwnSearchImageByExifTags ==
    /\ CacheReady /\ own.built
    /\ \E order \in (IF exif_iter.known THEN {exif_iter.order}
                     ELSE Orders(DOMAIN ic.exif_cache)) :
          /\ exif_iter' = [known |-> TRUE, order |-> order]
          /\ \E q \in PageQueries, limit \in {1, UsizeMax} :
                ret' = search_image_by_exif_tags(own, ic, order, q[1], q[2], q[3], 0,
                                                 limit, overflow_checks)
    /\ InstanceFrame

\* the global cache is built over dir; the other instance was built over a directory
\* of its own
InitInstance ==
    /\ dir \in PageDirs
    /\ path_kind = "dir"
    /\ overflow_checks = FALSE
    /\ InitFiles
    /\ container = NoContainer
    /\ extracted = NoExtracted
    /\ fetch = [t \in Threads |-> NoCall]
    /\ tmp_file = NoBytes
    /\ od_file = [z \in ZipNames |-> NoFile]
    /\ sweep = NoSweep
    /\ process = NoProcess
    /\ client = NoClient
    /\ own \in {build_fresh(files) : files \in OwnDirs}
    /\ key_io = NoKey
    /\ query = NoQuery
    /\ ret = NoRet

NextInstance ==
    \/ BuildBegin \/ BuildArchive \/ BuildFinish
    \/ OwnListAllImages \/ OwnSearchImageByName \/ OwnSearchImageByYearMonth
    \/ OwnSearchImageByExifTags \/ Reply

SpecInstance == InitInstance /\ [][NextInstance]_vars

\* the photos of `own` whose EXIF record satisfies the tag query of the latest call
OwnExifHits ==
    {p \in DOMAIN own.exif_cache :
        exif_tag_matched(own, p, ret.tag, ret.value, ret.operator)}

\* C29: each query on the instance `own` is answered from own alone: the year/month
\* search pages over own's list of that month, the EXIF search over the matching
\* records of own's EXIF map, the name search and the listing over own's images
C29_QueriesReadOwnCache ==
    /\ ret.fn = "list_all_images" => ret.full = own.images
    /\ ret.fn = "search_image_by_name" =>
          ret.full = SelectSeq(own.images, NameMatch)
    /\ ret.fn = "search_image_by_year_month" =>
          ret.full = IF /\ ret.year \in DOMAIN own.by_year_month
                        /\ ret.month \in DOMAIN own.by_year_month[ret.year]
                     THEN own.by_year_month[ret.year][ret.month] ELSE <<>>
    /\ ret.fn = "search_image_by_exif_tags" =>
          /\ Len(ret.full) = Cardinality(OwnExifHits)
          /\ Range(ret.full) = {ExifResult(p, own.exif_cache[p]) : p \in OwnExifHits}

\* ------------------------------------------------------------------------
\* The composite cache key: PhotoInfo -> key -> PhotoInfo
\* ------------------------------------------------------------------------

\* archive names and entry names, with and without the delimiter
KeyZipNames == {<<>>, <<"a">>, <<"a", "|", "b">>}

KeyPhotoNames == {<<>>, <<"b">>, <<"1">>, <<"b", "|", "1">>}

\* the PhotoInfo values a key is formed of
KeyPhotos == {PhotoInfo(z, n, i) : z \in KeyZipNames, n \in KeyPhotoNames, i \in 0..UsizeMax}

\* keys as a damaged or foreign .exif.json file can hold them
RawKeys ==
    { <<>>, <<"a", "|", "b">>, <<"a", "|", "b", "|">>, <<"a", "|", "b", "|", "c">>,
      <<"a", "|", "b", "|", "-", "1">>, <<"a", "|", "b", "|", " ", "1">>,
      <<"a", "|", "b", "|", "+", "5">>, <<"a", "|", "b", "|", "+">>,
      <<"a", "|", "b", "|", "1", "|", "2">>, <<"|", "|", "3">>, <<"a", "|", "b", "|", "0", "5">>,
      <<"a", "|", "b", "|", "1", ".", "0">> } \cup
    { <<"a", "|", "b", "|">> \o Digits(UsizeMax + 1) }

KeyFrame == UNCHANGED <<dir, exif_file, ym_file, pc, zip_files, next_zip, zip_infos,
                        exif_cache, by_year_month, ic, last, fresh, rerun, wrote,
                        overflow_checks, exif_iter, query, ret, path_kind, corrupt,
                        other_vars, od_file, sweep, process, client, own>>

\* to_serialized: the key of a PhotoInfo is formed before the .exif.json is written
SerializeAsKey ==
    /\ key_io.stage = "photo"
    /\ key_io' = [key_io EXCEPT !.stage = "key", !.key = serialize_as_key(key_io.p)]
    /\ KeyFrame

\* load_exif_cache: a key of the loaded .exif.json is turned back into a PhotoInfo
DeserializeFromKey ==
    /\ key_io.stage = "key"
    /\ key_io' = [key_io EXCEPT !.stage = "parsed", !.out = deserialize_from_key(key_io.key)]
    /\ KeyFrame

\* a PhotoInfo about to be serialized, or a key read from a file
InitKey ==
    /\ dir = <<OtherFile>>
    /\ path_kind = "dir"
    /\ overflow_checks = FALSE
    /\ InitFiles
    /\ container = NoContainer
    /\ extracted = NoExtracted
    /\ fetch = [t \in Threads |-> NoCall]
    /\ tmp_file = NoBytes
    /\ od_file = [z \in ZipNames |-> NoFile]
    /\ sweep = NoSweep
    /\ process = NoProcess
    /\ client = NoClient
    /\ own = NoCache
    /\ key_io \in {[NoKey EXCEPT !.stage = "photo", !.from_photo = TRUE, !.p = p] :
                      p \in KeyPhotos}
                  \cup {[NoKey EXCEPT !.stage = "key", !.key = k] : k \in RawKeys}
    /\ query = NoQuery
    /\ ret = NoRet

NextKey == SerializeAsKey \/ DeserializeFromKey

SpecKey == InitKey /\ [][NextKey]_vars

\* the text holds no '|'
NoBar(s) == \A k \in 1..Len(s) : s[k] # "|"

\* neither name of the PhotoInfo holds a '|'
PlainNames(p) == NoBar(p.zip_file_name) /\ NoBar(p.photo_file_name)

\* the text after the last '|' of a key
LastPart(key) ==
    LET bars == {k \in 1..Len(key) : key[k] = "|"}
        last_bar == CHOOSE k \in bars : \A j \in bars : j <= k
    IN  SubSeq(key, last_bar + 1, Len(key))

\* the text denotes an unsigned integer: digits, after an optional plus sign
UnsignedText(s) ==
    LET body == IF s # <<>> /\ s[1] = "+" THEN Tail(s) ELSE s
    IN  body # <<>> /\ \A k \in 1..Len(body) : IsDigit(body[k])

\* the key has exactly three parts and the third denotes an unsigned integer
WellFormedKey(key) ==
    /\ Cardinality({k \in 1..Len(key) : key[k] = "|"}) = 2
    /\ UnsignedText(LastPart(key))

\* C30: the key of a PhotoInfo whose names hold no '|' deserializes to that PhotoInfo,
\* no other such PhotoInfo has the same key, and a key that has not exactly three
\* parts or whose third part is no unsigned integer is rejected
C30_KeyRoundTrip ==
    /\ key_io.stage = "parsed" /\ key_io.from_photo /\ PlainNames(key_io.p) =>
          key_io.out.ok /\ key_io.out.info = key_io.p
    /\ key_io.stage \in {"key", "parsed"} /\ key_io.from_photo /\ PlainNames(key_io.p) =>
          \A q \in KeyPhotos :
              PlainNames(q) /\ q # key_io.p => serialize_as_key(q) # key_io.key
    /\ key_io.stage = "parsed" /\ ~WellFormedKey(key_io.key) => ~key_io.out.ok

\* a PhotoInfo with plain names and a non-zero index has gone through its key and back
C30_Witness ==
    /\ key_io.stage = "parsed" /\ key_io.from_photo /\ PlainNames(key_io.p)
    /\ key_io.p.zip_file_name # <<>> /\ key_io.p.photo_file_name # <<>>
    /\ key_io.p.photo_index_in_zip > 0
    /\ key_io.out.ok /\ key_io.out.info = key_io.p

====
